---- MODULE Spec2Model ----
(***************************************************************************)
(* ChaosKVS: the in-memory node, the worker pool, the metrics aggregator,  *)
(* the event bus, the cluster registry, the chaos injector, the recovery   *)
(* supervisor, the load generator and the scenario engine, modelled from   *)
(* internal/node/node.go, internal/worker/worker.go, internal/metrics,     *)
(* internal/events/bus.go, internal/cluster, internal/chaos/chaos.go,      *)
(* package recovery, internal/client/client.go and                         *)
(* internal/scenario/scenario.go.                                          *)
(*                                                                         *)
(* Each component has its own specification (SpecNode, SpecPool,           *)
(* SpecPoolFair, SpecPoolLive, SpecMetrics, SpecBus, SpecBusFair,          *)
(* SpecCluster, SpecChaos, SpecRecovery, SpecRecoveryLive, SpecClient,     *)
(* SpecClientLive, SpecScenario, SpecScenarioLive, SpecLocks,              *)
(* SpecLocksFair); a specification leaves the variables of the components  *)
(* it does not use unchanged.                                              *)
(***************************************************************************)
EXTENDS Integers, Sequences, FiniteSets, TLC

VARIABLES
    node,       \* the Node: [status, data, delay]
    nodeRet,    \* what the latest call on the node returned
    nodeHist,   \* history: the successful Set / Delete calls, oldest first
    nodeLife,   \* history: the last successful lifecycle calls since the last store write
    started,    \* Pool.started
    stopping,   \* Pool.stopping
    ctx,        \* Pool.ctx / Pool.cancel: the generation of the context (0: nil)
    ctxDone,    \* the generations whose context is cancelled
    jobs,       \* Pool.jobs: [buf, closed]
    workers,    \* the worker goroutines: <<generation, index>> -> [st, job]
    pc,         \* where each caller goroutine is in its call on the pool
    tjob,       \* the job each caller is submitting
    tctx,       \* the context generation a caller's select waits on
    poolRet,    \* what the latest call on the pool that returned, returned
    panicked,   \* the call that panicked the process ([op, job]), op "none" if none
    nextJob,    \* the next fresh job identity
    accepted,   \* history: the jobs whose Submit / SubmitWait returned true
    execCount,  \* history: how many times each job was run
    lateFrom,   \* history: the first job submitted after a Stop had returned
    overlap,    \* history: the caller's submit call has overlapped a Stop call
    totalRequests,   \* Metrics.totalRequests
    successRequests, \* Metrics.successRequests
    failedRequests,  \* Metrics.failedRequests
    totalLatencyNs,  \* Metrics.totalLatencyNs
    lastResetTime,   \* Metrics.lastResetTime
    windowRequests,  \* Metrics.windowRequests
    latencies,       \* Metrics.latencies
    now,        \* the clock read by time.Now()
    mpc,        \* where each recording goroutine is in RecordSuccess / RecordFailure
    mlat,       \* the latency each recording goroutine is recording
    spc,        \* where the reading goroutine is in Snapshot
    snap,       \* the Snapshot being filled: [TotalRequests, SuccessRequests, FailedRequests]
    snapQuiet,  \* history: no Record call has been in progress during this Snapshot
    records,    \* history: the number of Record calls made
    subscribers,  \* Bus.subscribers: the channels subscribed
    chans,      \* the channels Subscribe has made: channel -> [buf, closed]
    nextCh,     \* the next fresh channel
    pubEvent,   \* the event the publisher is publishing (0: no Publish in progress)
    pubTodo,    \* the subscribers the loop of that Publish has not visited yet
    pubCount,   \* history: the number of Publish calls made
    subAt,      \* history: the number of Publish calls made before each Subscribe
    got,        \* history: the events received from each channel, oldest first
    eos,        \* history: a receive from the channel has reported end-of-stream
    dropped,    \* history: a Publish found the channel's buffer full
    busPanicked,  \* a call on the bus has panicked
    busRet,     \* the latest Subscribe / Unsubscribe / Close, and SubscriberCount after it
    cobj,       \* the node objects of the cluster's world: object -> Node
    registry,   \* Cluster.nodes: identity -> the object registered under it (or NoObj)
    cmade,      \* the objects that have been created (node.New) so far
    saPc,       \* where the caller of StartAll is: "idle", "start", "wait"
    saTodo,     \* StartAll: the nodes whose goroutine has not called Start yet
    saErrs,     \* StartAll: the number of errors in errCh
    saSnap,     \* history: the nodes StartAll copied from the registry
    saFailed,   \* history: the nodes whose Start failed in this StartAll
    saQuiet,    \* history: nothing else has acted on the cluster during this StartAll
    saStopped,  \* history: every node this StartAll copied was Stopped then
    clusterRet, \* what the latest call on the cluster returned
    mkConfig,   \* Monkey.config: [TargetCount, SuspendTime]
    mkRunning,  \* Monkey.running
    mkCancelled,  \* Monkey.ctx is cancelled
    mkLoops,    \* Monkey.wg: the loop goroutines that have not returned
    mkPc,       \* where the caller of Monkey.Stop is: "idle", "wait"
    atkTargets, \* attack: the targets not attacked yet
    atkType,    \* attack: the attack type selected ("none": no attack in progress)
    attackCount,   \* Monkey.attackCount
    attackByType,  \* Monkey.attackByType
    suspendedIDs,  \* Monkey.suspendedIDs: the identities tracked
    suspendedAt,   \* Monkey.suspendedIDs: the time recorded for an identity
    mkSusp,     \* history: the nodes the injector suspended, Suspended ever since
    mkResumed,  \* history: the nodes the latest Monkey.Stop resumed
    mkResumeEvents,  \* history: the identities in the ChaosResume events of the latest checkAndResume
    atkCur,     \* attack: the target whose attack was applied and is not announced yet
    atkSnap,    \* history: the nodes selectTargets found Running in this tick
    mkApplied,  \* history: the targets this tick's attack was applied to
    mkPublished,  \* the ChaosAttack events published in this tick: <<identity, type>>
    mkLastTick, \* history: what the latest tick of the attack loop did
    rmMade,     \* recovery.New has been called
    rmConfig,   \* Manager.config: [RecoveryDelay, MaxRetries, AutoRestart, AutoResume, ClearDelay]
    nodeStates, \* Manager.nodeStates: identity -> [exists, failed, FailedAt, RetryCount, IsRecovered]
    rmStats,    \* Manager.stats
    rcPc,       \* where checkNode is: "idle", "handle", "start", "resume"
    rcTodo,     \* checkAndRecover: the nodes not checked yet in this tick
    rcNow,      \* checkAndRecover: now
    rcCur,      \* checkNode: n
    rcStatus,   \* checkNode: status
    rmPublished,  \* the number of events the supervisor has published
    rmAttempts, \* history: Node.Start attempts on a node since it was last observed Running
    rmSighted,  \* history: the first sighting of each node not Running in its failure episode: [seen, fresh, at]
    lkPc,       \* the locks: the operation each goroutine runs and the lock instruction it is at
    lkHeld,     \* the locks each goroutine holds: <<lock, "Lock" or "RLock">>
    lkCount,    \* the number of operations each goroutine has begun
    clRunning,  \* Client.running
    clCancelled,  \* Client.ctx is cancelled
    clLimit,    \* Client.config.RequestsLimit
    clPc,       \* where the caller of the client is: "idle", "produce", "workers", "producer"
    clOp,       \* the call in progress on the client: "none", "RunRequests", "Stop"
    clProd,     \* where generateRequests is ("none": the goroutine does not exist)
    clNodes,    \* generateRequests: nodes
    clJob,      \* generateRequests: the job being submitted, [o, write]
    cpStarted,  \* Client.pool.started
    cpStopping, \* Client.pool.stopping
    cpCancelled,  \* Client.pool.cancel has been called on the pool's current context
    cpJobs,     \* Client.pool.jobs: [buf, closed]
    cpWorkers,  \* the workers of Client.pool: index -> [st, job, err, served]
    clPanicked, \* a call on the client has panicked
    clRet,      \* the latest call that returned: [op, TotalRequests, count, nodes]
    clRuns,     \* history: the number of times the client was started
    clSubmitted,  \* history: the number of jobs the pool accepted
    enMade,     \* scenario.New has been called
    enConfig,   \* Engine.config: [NodeCount, EnableChaos, EnableRecovery]
    enRunning,  \* Engine.running
    enPc,       \* where each caller of Engine.Run is
    enRet,      \* what each caller's latest Run returned: [result, err]
    enCtxDone,  \* the context each caller gave to Run is cancelled
    enScenarioDone,  \* scenarioCtx of the run in progress is done
    enComp,     \* the engine's components: name -> [made, running, cancelled, loops]
    enTracked,  \* the injector's suspendedIDs
    enTodo,     \* StopAll: the nodes not stopped yet
    enActed,    \* history: an attack or a recovery has acted on a node in this run
    enRuns,     \* history: the number of runs admitted
    enTimedOut  \* history: scenarioCtx of this run has timed out

nodeVars == <<node, nodeRet, nodeHist, nodeLife>>

poolVars == <<started, stopping, ctx, ctxDone, jobs, workers, pc, tjob, tctx,
              poolRet, panicked, nextJob, accepted, execCount, lateFrom, overlap>>

metricsVars == <<totalRequests, successRequests, failedRequests, totalLatencyNs,
                 lastResetTime, windowRequests, latencies, now, mpc, mlat, spc, snap,
                 snapQuiet, records>>

busVars == <<subscribers, chans, nextCh, pubEvent, pubTodo, pubCount, subAt, got, eos,
             dropped, busPanicked, busRet>>

clusterVars == <<cobj, registry, cmade, saPc, saTodo, saErrs, saSnap, saFailed, saQuiet, saStopped,
                 clusterRet>>

chaosVars == <<mkConfig, mkRunning, mkCancelled, mkLoops, mkPc, atkTargets, atkType,
               attackCount, attackByType, suspendedIDs, suspendedAt, mkSusp, mkResumed,
               mkResumeEvents, atkCur, atkSnap, mkApplied, mkPublished, mkLastTick>>

recoveryVars == <<rmMade, rmConfig, nodeStates, rmStats, rcPc, rcTodo, rcNow, rcCur,
                  rcStatus, rmPublished, rmAttempts, rmSighted>>

clientVars == <<clRunning, clCancelled, clLimit, clPc, clOp, clProd, clNodes, clJob,
                cpStarted, cpStopping, cpCancelled, cpJobs, cpWorkers, clPanicked,
                clRet, clRuns, clSubmitted>>

scenarioVars == <<enMade, enConfig, enRunning, enPc, enRet, enCtxDone, enScenarioDone,
                  enComp, enTracked, enTodo, enActed, enRuns, enTimedOut>>

lockVars == <<lkPc, lkHeld, lkCount>>

notNode == <<poolVars, metricsVars, busVars, clusterVars, chaosVars, recoveryVars, clientVars,
    scenarioVars, lockVars>>

notPool == <<nodeVars, metricsVars, busVars, clusterVars, chaosVars, recoveryVars, clientVars,
    scenarioVars, lockVars>>

notMetrics == <<nodeVars, poolVars, busVars, clusterVars, chaosVars, recoveryVars, clientVars,
    scenarioVars, lockVars>>

notBus == <<nodeVars, poolVars, metricsVars, clusterVars, chaosVars, recoveryVars, clientVars,
    scenarioVars, lockVars>>

notCluster == <<nodeVars, poolVars, metricsVars, busVars, chaosVars, recoveryVars, clientVars,
    scenarioVars, lockVars>>

vars == <<nodeVars, poolVars, metricsVars, busVars, clusterVars, chaosVars, recoveryVars, clientVars,
    scenarioVars, lockVars>>

(***************************************************************************)
(* Bounds                                                                  *)
(***************************************************************************)
MaxHist == 3        \* successful Set / Delete calls in one run
MaxDelay == 1       \* injected delays range over 0..MaxDelay
NumWorkers == 1     \* PoolConfig.NumWorkers
QueueFactor == 1    \* PoolConfig.QueueFactor
MaxStarts == 2      \* calls of Pool.Start that start the pool
MaxJobs == 2        \* calls of Submit / SubmitWait in one run
MaxExec == 2        \* the runs of one job that are counted
MaxRecords == 3     \* calls of RecordSuccess / RecordFailure in one run
MaxTime == 1        \* the clock runs over 0..MaxTime
MaxLatencySamples == 2  \* Metrics.maxLatencySamples, the capacity of the reservoir
MaxSubs == 2        \* calls of Bus.Subscribe in one run
BufferSize == 2     \* Bus.bufferSize, the capacity of a subscriber's channel
MaxEvents == 3      \* calls of Bus.Publish in one run
MaxTargets == 2     \* Config.TargetCount ranges over 1..MaxTargets
MaxSuspendTime == 1 \* Config.SuspendTime ranges over 0..MaxSuspendTime
MaxAttacks == 2     \* attacks the injector completes in one run
MaxRetriesBound == 2  \* Config.MaxRetries ranges over 0..MaxRetriesBound
MaxRecoveries == 3  \* recovery attempts the supervisor makes in one run
MaxCount == 2       \* the count given to RunRequests ranges over 0..MaxCount
MaxRuns == 2        \* times the load generator is started in one run
MaxLockOps == 1      \* operations each goroutine of the lock model runs
MaxSubmits == 5     \* jobs the load generator's pool accepts in one run

Min(a, b) == IF a <= b THEN a ELSE b

Keys == {"k1", "k2"}
Values == {"v1", "v2"}
NoValue == "nil"
NoKey == "-"

(***************************************************************************)
(* Node (internal/node/node.go)                                            *)
(***************************************************************************)
StatusStopped == "Stopped"
StatusRunning == "Running"
StatusSuspended == "Suspended"
Status == {StatusStopped, StatusRunning, StatusSuspended}

\* New: a node is created Stopped, with an empty store and no delay.
New == [status |-> StatusStopped,
        data   |-> [k \in Keys |-> NoValue],
        delay  |-> 0]

\* Each operation maps a node to the node after the call and the call's result.
\* err is TRUE when the call returns a non-nil error.

NodeStart(n) ==
    IF n.status = StatusRunning
    THEN [node |-> n, err |-> TRUE]
    ELSE [node |-> [n EXCEPT !.status = StatusRunning], err |-> FALSE]

NodeStopClearsData(n) ==
    IF n.status = StatusStopped
    THEN [node |-> n, err |-> TRUE]
    ELSE [node |-> [n EXCEPT !.status = StatusStopped,
                             !.data = [k \in Keys |-> NoValue]],
          err |-> FALSE]

NodeStop(n) ==
    IF n.status = StatusStopped
    THEN [node |-> n, err |-> TRUE]
    ELSE [node |-> [n EXCEPT !.status = StatusStopped], err |-> FALSE]

NodeSuspend(n) ==
    IF n.status # StatusRunning
    THEN [node |-> n, err |-> TRUE]
    ELSE [node |-> [n EXCEPT !.status = StatusSuspended], err |-> FALSE]

NodeResume(n) ==
    IF n.status # StatusSuspended
    THEN [node |-> n, err |-> TRUE]
    ELSE [node |-> [n EXCEPT !.status = StatusRunning], err |-> FALSE]

NodeSetDelay(n, d) == [node |-> [n EXCEPT !.delay = d], err |-> FALSE]

\* Get: (value, exists); (nil, false) when the node is not Running.
NodeGet(n, key) ==
    IF n.status # StatusRunning
    THEN [val |-> NoValue, ok |-> FALSE]
    ELSE [val |-> n.data[key], ok |-> n.data[key] # NoValue]

NodeSet(n, key, value) ==
    IF n.status # StatusRunning
    THEN [node |-> n, err |-> TRUE]
    ELSE [node |-> [n EXCEPT !.data[key] = value], err |-> FALSE]

NodeDeleteKeepsKey(n, key) ==
    IF n.status # StatusRunning
    THEN [node |-> n, err |-> TRUE]
    ELSE [node |-> n, err |-> FALSE]

NodeDelete(n, key) ==
    IF n.status # StatusRunning
    THEN [node |-> n, err |-> TRUE]
    ELSE [node |-> [n EXCEPT !.data[key] = NoValue], err |-> FALSE]

\* ---- histories (observations of the calls, not program state) ----

Ret(op, key, val, ok) == [op |-> op, key |-> key, val |-> val, ok |-> ok]

\* The last two successful lifecycle calls since the store was last written.
Last2(s) == IF Len(s) <= 2 THEN s ELSE SubSeq(s, Len(s) - 1, Len(s))

LifeAfter(op, err) == IF err THEN nodeLife ELSE Last2(Append(nodeLife, op))

\* ---- the calls a single caller makes on the node ----

CallStart ==
    LET r == NodeStart(node) IN
    /\ node' = r.node
    /\ nodeRet' = Ret("Start", NoKey, NoValue, ~r.err)
    /\ nodeLife' = LifeAfter("Start", r.err)
    /\ UNCHANGED <<nodeHist, notNode>>

CallStop ==
    LET r == NodeStop(node) IN
    /\ node' = r.node
    /\ nodeRet' = Ret("Stop", NoKey, NoValue, ~r.err)
    /\ nodeLife' = LifeAfter("Stop", r.err)
    /\ UNCHANGED <<nodeHist, notNode>>

CallSuspend ==
    LET r == NodeSuspend(node) IN
    /\ node' = r.node
    /\ nodeRet' = Ret("Suspend", NoKey, NoValue, ~r.err)
    /\ nodeLife' = LifeAfter("Suspend", r.err)
    /\ UNCHANGED <<nodeHist, notNode>>

CallResume ==
    LET r == NodeResume(node) IN
    /\ node' = r.node
    /\ nodeRet' = Ret("Resume", NoKey, NoValue, ~r.err)
    /\ nodeLife' = LifeAfter("Resume", r.err)
    /\ UNCHANGED <<nodeHist, notNode>>

CallSetDelay ==
    \E d \in 0..MaxDelay :
        /\ node' = NodeSetDelay(node, d).node
        /\ nodeRet' = Ret("SetDelay", NoKey, NoValue, TRUE)
        /\ UNCHANGED <<nodeHist, nodeLife, notNode>>

CallGet ==
    \E k \in Keys :
        LET r == NodeGet(node, k) IN
        /\ nodeRet' = Ret("Get", k, r.val, r.ok)
        /\ UNCHANGED <<node, nodeHist, nodeLife, notNode>>

CallSet ==
    \E k \in Keys, v \in Values :
        LET r == NodeSet(node, k, v) IN
        /\ r.err \/ Len(nodeHist) < MaxHist
        /\ node' = r.node
        /\ nodeRet' = Ret("Set", k, v, ~r.err)
        /\ nodeHist' = IF r.err THEN nodeHist
                       ELSE Append(nodeHist, [op |-> "Set", key |-> k, val |-> v])
        /\ nodeLife' = IF r.err THEN nodeLife ELSE <<>>
        /\ UNCHANGED notNode

CallDelete ==
    \E k \in Keys :
        LET r == NodeDelete(node, k) IN
        /\ r.err \/ Len(nodeHist) < MaxHist
        /\ node' = r.node
        /\ nodeRet' = Ret("Delete", k, NoValue, ~r.err)
        /\ nodeHist' = IF r.err THEN nodeHist
                       ELSE Append(nodeHist, [op |-> "Delete", key |-> k, val |-> NoValue])
        /\ nodeLife' = IF r.err THEN nodeLife ELSE <<>>
        /\ UNCHANGED notNode

NodeInit ==
    /\ node = New
    /\ nodeRet = Ret("New", NoKey, NoValue, TRUE)
    /\ nodeHist = <<>>
    /\ nodeLife = <<>>

NodeNext ==
    \/ CallStart
    \/ CallStop
    \/ CallSuspend
    \/ CallResume
    \/ CallSetDelay
    \/ CallGet
    \/ CallSet
    \/ CallDelete


(***************************************************************************)
(* Worker pool (internal/worker/worker.go, Pool with the stopping flag)    *)
(***************************************************************************)
Threads == {"t1", "t2"}     \* the goroutines calling Submit, SubmitWait and Stop

\* NewPoolWithConfig: the queue holds numWorkers * queueFactor jobs.
QueueCap == NumWorkers * QueueFactor

Gens == 1..MaxStarts
WorkerIds == Gens \X (1..NumWorkers)
JobIds == 1..MaxJobs

NoPanic == [op |-> "none", job |-> 0]
NoWorker == [st |-> "none", job |-> 0]
IdleWorker == [st |-> "idle", job |-> 0]

\* wg: the WaitGroup counts the worker goroutines that have not returned.
LiveWorkers == {w \in WorkerIds : workers[w].st # "none"}

InStop(t) == pc[t] \in {"stop_flag", "stop_cancel", "stop_wait", "stop_close", "stop_end"}

InSubmit(t) == pc[t] \in {"Submit_check", "Submit_enter", "Submit_select",
                          "SubmitWait_check", "SubmitWait_enter", "SubmitWait_select"}

\* The jobs submitted after some Stop had returned.
LateJobs == {j \in JobIds : lateFrom <= j /\ j < nextJob}

PoolInit ==
    /\ started = FALSE
    /\ stopping = FALSE
    /\ ctx = 0
    /\ ctxDone = {}
    /\ jobs = [buf |-> <<>>, closed |-> FALSE]
    /\ workers = [w \in WorkerIds |-> NoWorker]
    /\ pc = [t \in Threads |-> "idle"]
    /\ tjob = [t \in Threads |-> 0]
    /\ tctx = [t \in Threads |-> 0]
    /\ poolRet = [op |-> "none", res |-> "none"]
    /\ panicked = NoPanic
    /\ nextJob = 1
    /\ accepted = {}
    /\ execCount = [j \in JobIds |-> 0]
    /\ lateFrom = MaxJobs + 1
    /\ overlap = [t \in Threads |-> FALSE]

Alive == panicked = NoPanic

\* A call returns to its caller.
Return(t, op, res) ==
    /\ pc' = [pc EXCEPT ![t] = "idle"]
    /\ poolRet' = [op |-> op, res |-> res]
    /\ overlap' = [overlap EXCEPT ![t] = FALSE]

\* ---- Pool.Start: one critical section of p.mu ----
PoolStartAlways(parentDone) ==
    /\ Alive
    /\ ctx < MaxStarts
    /\ ctx' = ctx + 1
    /\ ctxDone' = IF parentDone THEN ctxDone \cup {ctx + 1} ELSE ctxDone
    /\ started' = TRUE
    /\ workers' = [w \in WorkerIds |->
                     IF w[1] = ctx + 1 THEN IdleWorker ELSE workers[w]]
    /\ poolRet' = [op |-> "Start", res |-> "started"]
    /\ UNCHANGED <<stopping, jobs, pc, tjob, tctx, panicked, nextJob, accepted,
                   execCount, lateFrom, overlap, notPool>>

PoolStart(parentDone) ==
    /\ Alive
    /\ IF started
       THEN /\ poolRet' = [op |-> "Start", res |-> "noop"]
            /\ UNCHANGED <<started, ctx, ctxDone, workers>>
       ELSE /\ ctx < MaxStarts
            /\ ctx' = ctx + 1
            /\ ctxDone' = IF parentDone THEN ctxDone \cup {ctx + 1} ELSE ctxDone
            /\ started' = TRUE
            /\ workers' = [w \in WorkerIds |->
                             IF w[1] = ctx + 1 THEN IdleWorker ELSE workers[w]]
            /\ poolRet' = [op |-> "Start", res |-> "started"]
    /\ UNCHANGED <<stopping, jobs, pc, tjob, tctx, panicked, nextJob, accepted,
                   execCount, lateFrom, overlap, notPool>>

\* The context given to Start is cancelled by its owner.
CancelParent ==
    /\ Alive
    /\ \E g \in 1..ctx :
        /\ g \notin ctxDone
        /\ ctxDone' = ctxDone \cup {g}
    /\ UNCHANGED <<started, stopping, ctx, jobs, workers, pc, tjob, tctx, poolRet,
                   panicked, nextJob, accepted, execCount, lateFrom, overlap, notPool>>

\* ---- Pool.worker ----
WorkerSelectKeepsJob(w) ==
    /\ Alive
    /\ workers[w].st = "idle"
    /\ \/ /\ w[1] \in ctxDone
          /\ workers' = [workers EXCEPT ![w] = NoWorker]
       \/ /\ jobs.buf # <<>>
          /\ workers' = [workers EXCEPT ![w] = [st |-> "run", job |-> Head(jobs.buf)]]
       \/ /\ jobs.buf = <<>>
          /\ jobs.closed
          /\ workers' = [workers EXCEPT ![w] = NoWorker]
    /\ UNCHANGED <<started, stopping, ctx, ctxDone, jobs, pc, tjob, tctx, poolRet,
                   panicked, nextJob, accepted, execCount, lateFrom, overlap, notPool>>

\* select { case <-p.ctx.Done(): return; case job, ok := <-p.jobs: ... }
WorkerSelect(w) ==
    /\ Alive
    /\ workers[w].st = "idle"
    /\ \/ /\ w[1] \in ctxDone
          /\ workers' = [workers EXCEPT ![w] = NoWorker]
          /\ UNCHANGED jobs
       \/ /\ jobs.buf # <<>>
          /\ workers' = [workers EXCEPT ![w] = [st |-> "run", job |-> Head(jobs.buf)]]
          /\ jobs' = [jobs EXCEPT !.buf = Tail(jobs.buf)]
       \/ /\ jobs.buf = <<>>
          /\ jobs.closed
          /\ workers' = [workers EXCEPT ![w] = NoWorker]
          /\ UNCHANGED jobs
    /\ UNCHANGED <<started, stopping, ctx, ctxDone, pc, tjob, tctx, poolRet, panicked,
                   nextJob, accepted, execCount, lateFrom, overlap, notPool>>

\* job()
WorkerRun(w) ==
    /\ Alive
    /\ workers[w].st = "run"
    /\ execCount' = [execCount EXCEPT ![workers[w].job] =
                        IF @ < MaxExec THEN @ + 1 ELSE @]
    /\ workers' = [workers EXCEPT ![w] = IdleWorker]
    /\ UNCHANGED <<started, stopping, ctx, ctxDone, jobs, pc, tjob, tctx, poolRet,
                   panicked, nextJob, accepted, lateFrom, overlap, notPool>>

\* ---- Pool.Submit / Pool.SubmitWait ----
\* A panic raised inside Submit is caught by its deferred recover and reported
\* as a failed submit; SubmitWait has no recover, so the panic leaves the call.
Panic(t, kind) ==
    IF kind = "Submit"
    THEN /\ Return(t, kind, "false")
         /\ UNCHANGED panicked
    ELSE /\ panicked' = [op |-> kind, job |-> tjob[t]]
         /\ UNCHANGED <<pc, poolRet, overlap>>

SubmitFrame == UNCHANGED <<started, stopping, ctx, ctxDone, workers, execCount,
                           lateFrom, notPool>>

\* if p.stopping.Load() { return false }
SubmitBegin(t, kind) ==
    /\ Alive
    /\ pc[t] = "idle"
    /\ nextJob <= MaxJobs
    /\ tjob' = [tjob EXCEPT ![t] = nextJob]
    /\ nextJob' = nextJob + 1
    /\ IF stopping
       THEN Return(t, kind, "false")
       ELSE /\ pc' = [pc EXCEPT ![t] = kind \o "_check"]
            /\ overlap' = [overlap EXCEPT ![t] = \E u \in Threads : InStop(u)]
            /\ UNCHANGED poolRet
    /\ UNCHANGED <<jobs, tctx, panicked, accepted>>
    /\ SubmitFrame

\* select { case <-p.ctx.Done(): return false; default: }
SubmitCheck(t, kind) ==
    /\ Alive
    /\ pc[t] = kind \o "_check"
    /\ IF ctx = 0
       THEN Panic(t, kind)
       ELSE IF ctx \in ctxDone
            THEN Return(t, kind, "false") /\ UNCHANGED panicked
            ELSE /\ pc' = [pc EXCEPT ![t] = kind \o "_enter"]
                 /\ UNCHANGED <<poolRet, panicked, overlap>>
    /\ UNCHANGED <<jobs, tjob, tctx, nextJob, accepted>>
    /\ SubmitFrame

\* The second select evaluates p.ctx.Done() and p.jobs, then waits on them.
SubmitEnter(t, kind) ==
    /\ Alive
    /\ pc[t] = kind \o "_enter"
    /\ IF ctx = 0
       THEN Panic(t, kind) /\ UNCHANGED tctx
       ELSE /\ tctx' = [tctx EXCEPT ![t] = ctx]
            /\ pc' = [pc EXCEPT ![t] = kind \o "_select"]
            /\ UNCHANGED <<poolRet, panicked, overlap>>
    /\ UNCHANGED <<jobs, tjob, nextJob, accepted>>
    /\ SubmitFrame

\* select { case <-p.ctx.Done(): return false; case p.jobs <- job: return true }
SubmitSelect(t, kind) ==
    /\ Alive
    /\ pc[t] = kind \o "_select"
    /\ \/ /\ tctx[t] \in ctxDone
          /\ Return(t, kind, "false")
          /\ UNCHANGED <<jobs, panicked, accepted>>
       \/ /\ jobs.closed
          /\ Panic(t, kind)
          /\ UNCHANGED <<jobs, accepted>>
       \/ /\ ~jobs.closed
          /\ Len(jobs.buf) < QueueCap
          /\ jobs' = [jobs EXCEPT !.buf = Append(@, tjob[t])]
          /\ accepted' = accepted \cup {tjob[t]}
          /\ Return(t, kind, "true")
          /\ UNCHANGED panicked
    /\ UNCHANGED <<tjob, tctx, nextJob>>
    /\ SubmitFrame

PoolSubmit(t) ==
    \/ SubmitBegin(t, "Submit")
    \/ SubmitCheck(t, "Submit")
    \/ SubmitEnter(t, "Submit")
    \/ SubmitSelect(t, "Submit")

PoolSubmitWait(t) ==
    \/ SubmitBegin(t, "SubmitWait")
    \/ SubmitCheck(t, "SubmitWait")
    \/ SubmitEnter(t, "SubmitWait")
    \/ SubmitSelect(t, "SubmitWait")

\* ---- Pool.Stop ----
StopFrame == UNCHANGED <<ctx, workers, tjob, tctx, nextJob, accepted, execCount,
                         notPool>>

\* p.mu.Lock(); if !p.started { p.mu.Unlock(); return }; p.mu.Unlock()
StopBegin(t) ==
    /\ Alive
    /\ pc[t] = "idle"
    /\ IF ~started
       THEN Return(t, "Stop", "noop")
       ELSE /\ pc' = [pc EXCEPT ![t] = "stop_flag"]
            /\ overlap' = [u \in Threads |-> overlap[u] \/ InSubmit(u)]
            /\ UNCHANGED poolRet
    /\ UNCHANGED <<started, stopping, ctxDone, jobs, panicked, lateFrom>>
    /\ StopFrame

\* p.stopping.Store(true)
StopFlag(t) ==
    /\ Alive
    /\ pc[t] = "stop_flag"
    /\ stopping' = TRUE
    /\ pc' = [pc EXCEPT ![t] = "stop_cancel"]
    /\ UNCHANGED <<started, ctxDone, jobs, poolRet, panicked, lateFrom, overlap>>
    /\ StopFrame

\* p.cancel()
StopCancel(t) ==
    /\ Alive
    /\ pc[t] = "stop_cancel"
    /\ ctxDone' = ctxDone \cup {ctx}
    /\ pc' = [pc EXCEPT ![t] = "stop_wait"]
    /\ UNCHANGED <<started, stopping, jobs, poolRet, panicked, lateFrom, overlap>>
    /\ StopFrame

StopWaitSkipsWorkers(t) ==
    /\ Alive
    /\ pc[t] = "stop_wait"
    /\ pc' = [pc EXCEPT ![t] = "stop_close"]
    /\ UNCHANGED <<started, stopping, ctxDone, jobs, poolRet, panicked, lateFrom, overlap>>
    /\ StopFrame

\* p.wg.Wait()
StopWait(t) ==
    /\ Alive
    /\ pc[t] = "stop_wait"
    /\ LiveWorkers = {}
    /\ pc' = [pc EXCEPT ![t] = "stop_close"]
    /\ UNCHANGED <<started, stopping, ctxDone, jobs, poolRet, panicked, lateFrom, overlap>>
    /\ StopFrame

\* close(p.jobs): closing a closed channel panics.
StopClose(t) ==
    /\ Alive
    /\ pc[t] = "stop_close"
    /\ IF jobs.closed
       THEN /\ panicked' = [op |-> "Stop", job |-> 0]
            /\ UNCHANGED <<jobs, pc>>
       ELSE /\ jobs' = [jobs EXCEPT !.closed = TRUE]
            /\ pc' = [pc EXCEPT ![t] = "stop_end"]
            /\ UNCHANGED panicked
    /\ UNCHANGED <<started, stopping, ctxDone, poolRet, lateFrom, overlap>>
    /\ StopFrame

\* p.mu.Lock(); p.started = false; p.stopping.Store(false); p.mu.Unlock()
StopEnd(t) ==
    /\ Alive
    /\ pc[t] = "stop_end"
    /\ started' = FALSE
    /\ stopping' = FALSE
    /\ lateFrom' = IF lateFrom <= nextJob THEN lateFrom ELSE nextJob
    /\ Return(t, "Stop", "stopped")
    /\ UNCHANGED <<ctxDone, jobs, panicked>>
    /\ StopFrame

PoolStop(t) ==
    \/ StopBegin(t)
    \/ StopFlag(t)
    \/ StopCancel(t)
    \/ StopWait(t)
    \/ StopClose(t)
    \/ StopEnd(t)

PoolNext ==
    \/ \E parentDone \in BOOLEAN : PoolStart(parentDone)
    \/ \E t \in Threads : PoolSubmit(t)
    \/ \E t \in Threads : PoolSubmitWait(t)
    \/ \E t \in Threads : PoolStop(t)
    \/ \E w \in WorkerIds : WorkerSelect(w)
    \/ \E w \in WorkerIds : WorkerRun(w)
    \/ CancelParent

(***************************************************************************)
(* Metrics (internal/metrics)                                              *)
(***************************************************************************)
Recorders == {"r1", "r2"}   \* the goroutines recording requests
Latencies == {1, 2}         \* the latencies recorded, in nanoseconds

\* New: the counters are zero, the window starts now, the reservoir is empty.
MetricsInit ==
    /\ totalRequests = 0
    /\ successRequests = 0
    /\ failedRequests = 0
    /\ totalLatencyNs = 0
    /\ now = 0
    /\ lastResetTime = 0
    /\ windowRequests = 0
    /\ latencies = <<>>
    /\ mpc = [r \in Recorders |-> "idle"]
    /\ mlat = [r \in Recorders |-> 0]
    /\ spc = "idle"
    /\ snap = [TotalRequests |-> 0, SuccessRequests |-> 0, FailedRequests |-> 0]
    /\ snapQuiet = TRUE
    /\ records = 0

\* The Record calls that have added to totalRequests and not yet to their own counter.
InFlight == {r \in Recorders : mpc[r] \in {"success_add", "failure_add"}}

Recording == {r \in Recorders : mpc[r] # "idle"}

ReadFrame == UNCHANGED <<totalRequests, successRequests, failedRequests, totalLatencyNs,
                         lastResetTime, windowRequests, latencies, now, mpc, mlat,
                         records, notMetrics>>

\* ---- RecordSuccess / RecordFailure ----
\* m.totalRequests.Add(1)
AddTotalSkipped(r, lat, next) ==
    /\ mpc[r] = "idle"
    /\ records < MaxRecords
    /\ records' = records + 1
    /\ mlat' = [mlat EXCEPT ![r] = lat]
    /\ mpc' = [mpc EXCEPT ![r] = next]
    /\ snapQuiet' = (snapQuiet /\ spc = "idle")
    /\ UNCHANGED <<totalRequests, successRequests, failedRequests, totalLatencyNs,
                   lastResetTime, windowRequests, latencies, now, spc, snap, notMetrics>>

AddTotal(r, lat, next) ==
    /\ mpc[r] = "idle"
    /\ records < MaxRecords
    /\ records' = records + 1
    /\ totalRequests' = totalRequests + 1
    /\ mlat' = [mlat EXCEPT ![r] = lat]
    /\ mpc' = [mpc EXCEPT ![r] = next]
    /\ snapQuiet' = (snapQuiet /\ spc = "idle")
    /\ UNCHANGED <<successRequests, failedRequests, totalLatencyNs, lastResetTime,
                   windowRequests, latencies, now, spc, snap, notMetrics>>

\* m.successRequests.Add(1)
AddSuccess(r) ==
    /\ mpc[r] = "success_add"
    /\ successRequests' = successRequests + 1
    /\ mpc' = [mpc EXCEPT ![r] = "success_latency"]
    /\ UNCHANGED <<totalRequests, failedRequests, totalLatencyNs, lastResetTime,
                   windowRequests, latencies, now, mlat, spc, snap, snapQuiet, records,
                   notMetrics>>

\* m.failedRequests.Add(1)
AddFailed(r) ==
    /\ mpc[r] = "failure_add"
    /\ failedRequests' = failedRequests + 1
    /\ mpc' = [mpc EXCEPT ![r] = "failure_latency"]
    /\ UNCHANGED <<totalRequests, successRequests, totalLatencyNs, lastResetTime,
                   windowRequests, latencies, now, mlat, spc, snap, snapQuiet, records,
                   notMetrics>>

\* m.totalLatencyNs.Add(uint64(latency.Nanoseconds()))
AddLatency(r, from, next) ==
    /\ mpc[r] = from
    /\ totalLatencyNs' = totalLatencyNs + mlat[r]
    /\ mpc' = [mpc EXCEPT ![r] = next]
    /\ UNCHANGED <<totalRequests, successRequests, failedRequests, lastResetTime,
                   windowRequests, latencies, now, mlat, spc, snap, snapQuiet, records,
                   notMetrics>>

\* m.mu.Lock(); m.windowRequests++; (RecordSuccess: the sample, if there is room);
\* m.mu.Unlock()
AddWindow(r, from, sample) ==
    /\ mpc[r] = from
    /\ windowRequests' = windowRequests + 1
    /\ latencies' = IF sample /\ Len(latencies) < MaxLatencySamples
                    THEN Append(latencies, mlat[r]) ELSE latencies
    /\ mpc' = [mpc EXCEPT ![r] = "idle"]
    /\ mlat' = [mlat EXCEPT ![r] = 0]
    /\ UNCHANGED <<totalRequests, successRequests, failedRequests, totalLatencyNs,
                   lastResetTime, now, spc, snap, snapQuiet, records, notMetrics>>

RecordSuccess(r) ==
    \/ \E lat \in Latencies : AddTotal(r, lat, "success_add")
    \/ AddSuccess(r)
    \/ AddLatency(r, "success_latency", "success_window")
    \/ AddWindow(r, "success_window", TRUE)

RecordFailure(r) ==
    \/ \E lat \in Latencies : AddTotal(r, lat, "failure_add")
    \/ AddFailed(r)
    \/ AddLatency(r, "failure_latency", "failure_window")
    \/ AddWindow(r, "failure_window", FALSE)

\* ---- Reset: one critical section of m.mu ----
ResetClearsTotals ==
    /\ windowRequests' = 0
    /\ lastResetTime' = now
    /\ latencies' = <<>>
    /\ totalRequests' = 0
    /\ successRequests' = 0
    /\ failedRequests' = 0
    /\ UNCHANGED <<totalLatencyNs, now, mpc, mlat, spc, snap, snapQuiet, records,
                   notMetrics>>

Reset ==
    /\ windowRequests' = 0
    /\ lastResetTime' = now
    /\ latencies' = <<>>
    /\ UNCHANGED <<totalRequests, successRequests, failedRequests, totalLatencyNs, now,
                   mpc, mlat, spc, snap, snapQuiet, records, notMetrics>>

\* ---- Snapshot: the counters are loaded one after the other ----
\* TotalRequests: m.TotalRequests()
SnapshotTotal ==
    /\ spc = "idle"
    /\ snap' = [TotalRequests |-> totalRequests, SuccessRequests |-> 0,
                FailedRequests |-> 0]
    /\ snapQuiet' = (Recording = {})
    /\ spc' = "success"
    /\ ReadFrame

\* SuccessRequests: m.SuccessRequests()
SnapshotSuccess ==
    /\ spc = "success"
    /\ snap' = [snap EXCEPT !.SuccessRequests = successRequests]
    /\ spc' = "failed"
    /\ UNCHANGED snapQuiet
    /\ ReadFrame

\* FailedRequests: m.FailedRequests(); the remaining fields only read.
SnapshotFailed ==
    /\ spc = "failed"
    /\ snap' = [snap EXCEPT !.FailedRequests = failedRequests]
    /\ spc' = "idle"
    /\ UNCHANGED snapQuiet
    /\ ReadFrame

Snapshot ==
    \/ SnapshotTotal
    \/ SnapshotSuccess
    \/ SnapshotFailed

\* Time passes.
Tick ==
    /\ now < MaxTime
    /\ now' = now + 1
    /\ UNCHANGED <<totalRequests, successRequests, failedRequests, totalLatencyNs,
                   lastResetTime, windowRequests, latencies, mpc, mlat, spc, snap,
                   snapQuiet, records, notMetrics>>

MetricsNext ==
    \/ \E r \in Recorders : RecordSuccess(r)
    \/ \E r \in Recorders : RecordFailure(r)
    \/ Reset
    \/ Snapshot
    \/ Tick

(***************************************************************************)
(* Event bus (internal/events/bus.go)                                      *)
(***************************************************************************)
Channels == 1..MaxSubs
Events == 1..MaxEvents      \* an event is identified by the number of its Publish

NoChan == [buf |-> <<>>, closed |-> FALSE]

\* The channels Subscribe has returned so far.
Made == 1..(nextCh - 1)

\* NewBus: no subscriber.
BusInit ==
    /\ subscribers = {}
    /\ chans = [ch \in Channels |-> NoChan]
    /\ nextCh = 1
    /\ pubEvent = 0
    /\ pubTodo = {}
    /\ pubCount = 0
    /\ subAt = [ch \in Channels |-> 0]
    /\ got = [ch \in Channels |-> <<>>]
    /\ eos = [ch \in Channels |-> FALSE]
    /\ dropped = [ch \in Channels |-> FALSE]
    /\ busPanicked = FALSE
    /\ busRet = [op |-> "NewBus", ch |-> 0, count |-> 0]

BusAlive == ~busPanicked

\* b.mu is free for a writer: no Publish holds the read lock.
BusUnlocked == pubEvent = 0

\* Subscribe: one critical section of b.mu.
Subscribe ==
    /\ BusAlive
    /\ BusUnlocked
    /\ nextCh <= MaxSubs
    /\ subscribers' = subscribers \cup {nextCh}
    /\ subAt' = [subAt EXCEPT ![nextCh] = pubCount]
    /\ nextCh' = nextCh + 1
    /\ busRet' = [op |-> "Subscribe", ch |-> nextCh, count |-> Cardinality(subscribers')]
    /\ UNCHANGED <<chans, pubEvent, pubTodo, pubCount, got, eos, dropped, busPanicked,
                   notBus>>

UnsubscribeNoLock(ch) ==
    /\ BusAlive
    /\ ch \in Made
    /\ IF ch \in subscribers
       THEN /\ subscribers' = subscribers \ {ch}
            /\ IF chans[ch].closed
               THEN busPanicked' = TRUE /\ UNCHANGED chans
               ELSE /\ chans' = [chans EXCEPT ![ch].closed = TRUE]
                    /\ UNCHANGED busPanicked
       ELSE UNCHANGED <<subscribers, chans, busPanicked>>
    /\ busRet' = [op |-> "Unsubscribe", ch |-> ch, count |-> Cardinality(subscribers')]
    /\ UNCHANGED <<nextCh, pubEvent, pubTodo, pubCount, subAt, got, eos, dropped, notBus>>

\* Unsubscribe(ch): one critical section of b.mu; a channel that is not
\* subscribed is left alone.
Unsubscribe(ch) ==
    /\ BusAlive
    /\ BusUnlocked
    /\ ch \in Made
    /\ IF ch \in subscribers
       THEN /\ subscribers' = subscribers \ {ch}
            /\ IF chans[ch].closed
               THEN busPanicked' = TRUE /\ UNCHANGED chans
               ELSE /\ chans' = [chans EXCEPT ![ch].closed = TRUE]
                    /\ UNCHANGED busPanicked
       ELSE UNCHANGED <<subscribers, chans, busPanicked>>
    /\ busRet' = [op |-> "Unsubscribe", ch |-> ch, count |-> Cardinality(subscribers')]
    /\ UNCHANGED <<nextCh, pubEvent, pubTodo, pubCount, subAt, got, eos, dropped, notBus>>

\* Publish: b.mu.RLock(), then the loop over b.subscribers.
PublishBegin ==
    /\ BusAlive
    /\ pubEvent = 0
    /\ pubCount < MaxEvents
    /\ pubCount' = pubCount + 1
    /\ pubEvent' = IF subscribers = {} THEN 0 ELSE pubCount + 1
    /\ pubTodo' = subscribers
    /\ UNCHANGED <<subscribers, chans, nextCh, subAt, got, eos, dropped, busPanicked,
                   busRet, notBus>>

PublishSendPrepends(ch) ==
    /\ BusAlive
    /\ pubEvent # 0
    /\ ch \in pubTodo
    /\ pubTodo' = pubTodo \ {ch}
    /\ pubEvent' = IF pubTodo = {ch} THEN 0 ELSE pubEvent
    /\ IF chans[ch].closed
       THEN /\ busPanicked' = TRUE
            /\ UNCHANGED <<chans, dropped>>
       ELSE IF Len(chans[ch].buf) < BufferSize
            THEN /\ chans' = [chans EXCEPT ![ch].buf = <<pubEvent>> \o @]
                 /\ UNCHANGED <<dropped, busPanicked>>
            ELSE /\ dropped' = [dropped EXCEPT ![ch] = TRUE]
                 /\ UNCHANGED <<chans, busPanicked>>
    /\ UNCHANGED <<subscribers, nextCh, pubCount, subAt, got, eos, busRet, notBus>>

PublishSendBlocks(ch) ==
    /\ BusAlive
    /\ pubEvent # 0
    /\ ch \in pubTodo
    /\ Len(chans[ch].buf) < BufferSize
    /\ pubTodo' = pubTodo \ {ch}
    /\ pubEvent' = IF pubTodo = {ch} THEN 0 ELSE pubEvent
    /\ chans' = [chans EXCEPT ![ch].buf = Append(@, pubEvent)]
    /\ UNCHANGED <<subscribers, nextCh, pubCount, subAt, got, eos, dropped, busPanicked,
                   busRet, notBus>>

\* select { case ch <- event: default: } for one subscriber, in map order; the
\* deferred RUnlock after the last one.
PublishSend(ch) ==
    /\ BusAlive
    /\ pubEvent # 0
    /\ ch \in pubTodo
    /\ pubTodo' = pubTodo \ {ch}
    /\ pubEvent' = IF pubTodo = {ch} THEN 0 ELSE pubEvent
    /\ IF chans[ch].closed
       THEN /\ busPanicked' = TRUE
            /\ UNCHANGED <<chans, dropped>>
       ELSE IF Len(chans[ch].buf) < BufferSize
            THEN /\ chans' = [chans EXCEPT ![ch].buf = Append(@, pubEvent)]
                 /\ UNCHANGED <<dropped, busPanicked>>
            ELSE /\ dropped' = [dropped EXCEPT ![ch] = TRUE]
                 /\ UNCHANGED <<chans, busPanicked>>
    /\ UNCHANGED <<subscribers, nextCh, pubCount, subAt, got, eos, busRet, notBus>>

Publish ==
    \/ PublishBegin
    \/ \E ch \in Channels : PublishSend(ch)

BusCloseKeepsSubscribers ==
    /\ BusAlive
    /\ BusUnlocked
    /\ chans' = [ch \in Channels |->
                    IF ch \in subscribers
                    THEN [chans[ch] EXCEPT !.closed = TRUE] ELSE chans[ch]]
    /\ busRet' = [op |-> "Close", ch |-> 0, count |-> Cardinality(subscribers)]
    /\ UNCHANGED <<subscribers, nextCh, pubEvent, pubTodo, pubCount, subAt, got, eos,
                   dropped, busPanicked, notBus>>

\* Close: one critical section of b.mu.
BusClose ==
    /\ BusAlive
    /\ BusUnlocked
    /\ IF \E ch \in subscribers : chans[ch].closed
       THEN busPanicked' = TRUE /\ UNCHANGED <<chans, subscribers>>
       ELSE /\ chans' = [ch \in Channels |->
                           IF ch \in subscribers
                           THEN [chans[ch] EXCEPT !.closed = TRUE] ELSE chans[ch]]
            /\ subscribers' = {}
            /\ UNCHANGED busPanicked
    /\ busRet' = [op |-> "Close", ch |-> 0, count |-> Cardinality(subscribers')]
    /\ UNCHANGED <<nextCh, pubEvent, pubTodo, pubCount, subAt, got, eos, dropped, notBus>>

\* A subscriber receives from its channel: a buffered event, or end-of-stream
\* from a closed and drained channel.
Receive(ch) ==
    /\ BusAlive
    /\ ch \in Made
    /\ IF chans[ch].buf # <<>>
       THEN /\ got' = [got EXCEPT ![ch] = Append(@, Head(chans[ch].buf))]
            /\ chans' = [chans EXCEPT ![ch].buf = Tail(@)]
            /\ UNCHANGED eos
       ELSE /\ chans[ch].closed
            /\ ~eos[ch]
            /\ eos' = [eos EXCEPT ![ch] = TRUE]
            /\ UNCHANGED <<got, chans>>
    /\ UNCHANGED <<subscribers, nextCh, pubEvent, pubTodo, pubCount, subAt, dropped,
                   busPanicked, busRet, notBus>>

BusNext ==
    \/ Subscribe
    \/ \E ch \in Channels : Unsubscribe(ch)
    \/ Publish
    \/ BusClose
    \/ \E ch \in Channels : Receive(ch)

(***************************************************************************)
(* Cluster (internal/cluster)                                              *)
(***************************************************************************)
NodeIds == {"node-1", "node-2"}

\* A node object: its identity and which of the objects made with that identity.
Copies == {1, 2}           \* the node objects made with one identity

Objs == NodeIds \X Copies
NoObj == <<"-", 0>>

ObjId(o) == o[1]

\* CreateNodes names its nodes prefix-1 .. prefix-count.
CreateId(i) == IF i = 1 THEN "node-1" ELSE "node-2"

Registered == {i \in NodeIds : registry[i] # NoObj}

\* Nodes(): the objects registered.
ClusterNodes == {registry[i] : i \in Registered}

\* Size(), RunningCount(), StoppedCount()
ClusterSize == Cardinality(Registered)

CountStatus(st) == Cardinality({i \in Registered : cobj[registry[i]].status = st})

\* cluster.New: no node registered; no node object made yet.
ClusterInit ==
    /\ cobj = [o \in Objs |-> New]
    /\ registry = [i \in NodeIds |-> NoObj]
    /\ cmade = {}
    /\ saPc = "idle"
    /\ saTodo = {}
    /\ saErrs = 0
    /\ saSnap = {}
    /\ saFailed = {}
    /\ saQuiet = TRUE
    /\ saStopped = TRUE
    /\ clusterRet = [op |-> "New", err |-> FALSE, count |-> 0]

RegistryAddOverwrites(reg, o) ==
    [registry |-> [reg EXCEPT ![ObjId(o)] = o], err |-> FALSE]

\* The registry after AddNode(o), and whether the call failed.
RegistryAdd(reg, o) ==
    IF reg[ObjId(o)] # NoObj
    THEN [registry |-> reg, err |-> TRUE]
    ELSE [registry |-> [reg EXCEPT ![ObjId(o)] = o], err |-> FALSE]

\* The next object node.New(id) makes.
FreshObj(id, made) ==
    <<id, 1 + Cardinality({c \in Copies : <<id, c>> \in made})>>

\* AddNode(n), with a node the caller has made (a new one or one made before).
AddNode(o) ==
    /\ o \in cmade \/ o = FreshObj(ObjId(o), cmade)
    /\ LET r == RegistryAdd(registry, o) IN
        /\ registry' = r.registry
        /\ clusterRet' = [op |-> "AddNode", err |-> r.err, count |-> 0]
    /\ cmade' = cmade \cup {o}
    /\ saQuiet' = (saPc = "idle")
    /\ UNCHANGED <<cobj, saPc, saTodo, saErrs, saSnap, saFailed, saStopped, notCluster>>

\* RemoveNode(id): a Running node is stopped before it is removed.
RemoveNode(id) ==
    /\ IF registry[id] = NoObj
       THEN /\ clusterRet' = [op |-> "RemoveNode", err |-> TRUE, count |-> 0]
            /\ UNCHANGED <<cobj, registry>>
       ELSE /\ cobj' = [cobj EXCEPT ![registry[id]] =
                           IF @.status = StatusRunning THEN NodeStop(@).node ELSE @]
            /\ registry' = [registry EXCEPT ![id] = NoObj]
            /\ clusterRet' = [op |-> "RemoveNode", err |-> FALSE, count |-> 0]
    /\ saQuiet' = (saPc = "idle")
    /\ UNCHANGED <<cmade, saPc, saTodo, saErrs, saSnap, saFailed, saStopped, notCluster>>

\* CreateNodes(count, prefix): node.New and AddNode for prefix-1 .. prefix-count,
\* returning at the first AddNode that fails.
RECURSIVE CreateFrom(_, _, _, _)
CreateFrom(i, count, reg, made) ==
    IF i > count
    THEN [registry |-> reg, made |-> made, err |-> FALSE]
    ELSE LET o == FreshObj(CreateId(i), made)
             r == RegistryAdd(reg, o)
         IN  IF r.err
             THEN [registry |-> reg, made |-> made \cup {o}, err |-> TRUE]
             ELSE CreateFrom(i + 1, count, r.registry, made \cup {o})

CreateNodes(count) ==
    /\ \A i \in 1..count : FreshObj(CreateId(i), cmade) \in Objs
    /\ LET r == CreateFrom(1, count, registry, cmade) IN
        /\ registry' = r.registry
        /\ cmade' = r.made
        /\ clusterRet' = [op |-> "CreateNodes", err |-> r.err, count |-> 0]
    /\ saQuiet' = (saPc = "idle")
    /\ UNCHANGED <<cobj, saPc, saTodo, saErrs, saSnap, saFailed, saStopped, notCluster>>

\* StartAll: the nodes are copied under c.mu, and one goroutine per node is started.
StartAllBegin ==
    /\ saPc = "idle"
    /\ saPc' = "start"
    /\ saTodo' = ClusterNodes
    /\ saSnap' = ClusterNodes
    /\ saErrs' = 0
    /\ saFailed' = {}
    /\ saQuiet' = TRUE
    /\ saStopped' = \A o \in ClusterNodes : cobj[o].status = StatusStopped
    /\ UNCHANGED <<cobj, registry, cmade, clusterRet, notCluster>>

StartAllNodeDropsError(o) ==
    /\ saPc = "start"
    /\ o \in saTodo
    /\ LET r == NodeStart(cobj[o]) IN
        /\ cobj' = [cobj EXCEPT ![o] = r.node]
        /\ saFailed' = IF r.err THEN saFailed \cup {o} ELSE saFailed
    /\ saTodo' = saTodo \ {o}
    /\ UNCHANGED <<registry, cmade, saPc, saErrs, saSnap, saQuiet, saStopped, clusterRet,
                   notCluster>>

\* go func(n) { if err := n.Start(ctx); err != nil { errCh <- err } }(n)
StartAllNode(o) ==
    /\ saPc = "start"
    /\ o \in saTodo
    /\ LET r == NodeStart(cobj[o]) IN
        /\ cobj' = [cobj EXCEPT ![o] = r.node]
        /\ saErrs' = IF r.err THEN saErrs + 1 ELSE saErrs
        /\ saFailed' = IF r.err THEN saFailed \cup {o} ELSE saFailed
    /\ saTodo' = saTodo \ {o}
    /\ UNCHANGED <<registry, cmade, saPc, saSnap, saQuiet, saStopped, clusterRet, notCluster>>

\* wg.Wait(); close(errCh); the errors are counted and the count reported.
StartAllEnd ==
    /\ saPc = "start"
    /\ saTodo = {}
    /\ saPc' = "idle"
    /\ clusterRet' = [op |-> "StartAll", err |-> saErrs > 0, count |-> saErrs]
    /\ saErrs' = 0
    /\ saSnap' = {}
    /\ saFailed' = {}
    /\ saQuiet' = TRUE
    /\ saStopped' = TRUE
    /\ UNCHANGED <<cobj, registry, cmade, saTodo, notCluster>>

StartAll ==
    \/ StartAllBegin
    \/ \E o \in Objs : StartAllNode(o)
    \/ StartAllEnd

\* A holder of a node of the cluster (the injector, the supervisor, a client)
\* calls a lifecycle operation on it.
HolderCall(o, op) ==
    /\ o \in ClusterNodes
    /\ cobj' = [cobj EXCEPT ![o] =
                  CASE op = "Start"   -> NodeStart(@).node
                    [] op = "Stop"    -> NodeStop(@).node
                    [] op = "Suspend" -> NodeSuspend(@).node
                    [] op = "Resume"  -> NodeResume(@).node]
    /\ cobj'[o] # cobj[o]
    /\ saQuiet' = (saPc = "idle")
    /\ UNCHANGED <<registry, cmade, saPc, saTodo, saErrs, saSnap, saFailed, saStopped,
                   clusterRet, notCluster>>

ClusterNext ==
    \/ \E o \in Objs : AddNode(o)
    \/ \E id \in NodeIds : RemoveNode(id)
    \/ \E count \in 0..Cardinality(NodeIds) : CreateNodes(count)
    \/ StartAll
    \/ \E o \in Objs, op \in {"Start", "Stop", "Suspend", "Resume"} : HolderCall(o, op)

(***************************************************************************)
(* Chaos injector (internal/chaos/chaos.go)                                *)
(***************************************************************************)
AttackKill == "kill"
AttackSuspend == "suspend"
AttackDelay == "delay"
AttackTypes == {AttackKill, AttackSuspend, AttackDelay}

\* What the injector changes besides the nodes; the cluster itself and the clock
\* are only read.
ChaosFrame == UNCHANGED <<registry, cmade, saPc, saTodo, saErrs, saSnap, saFailed,
                          saQuiet, saStopped, clusterRet, nodeVars, poolVars,
                          metricsVars, busVars, recoveryVars, clientVars,
                          scenarioVars, lockVars>>

\* chaos.New with DefaultConfig: one target, a positive SuspendTime.
ChaosInit ==
    /\ mkConfig = [TargetCount |-> 1, SuspendTime |-> MaxSuspendTime]
    /\ mkRunning = FALSE
    /\ mkCancelled = FALSE
    /\ mkLoops = {}
    /\ mkPc = "idle"
    /\ atkTargets = <<>>
    /\ atkCur = NoObj
    /\ atkSnap = {}
    /\ mkApplied = {}
    /\ mkPublished = {}
    /\ mkLastTick = "none"
    /\ atkType = "none"
    /\ attackCount = 0
    /\ attackByType = [t \in AttackTypes |-> 0]
    /\ suspendedIDs = {}
    /\ suspendedAt = [i \in NodeIds |-> 0]
    /\ mkSusp = {}
    /\ mkResumed = {}
    /\ mkResumeEvents = {}

\* Of the nodes in S, those that are Suspended after this step.
StillSuspended(S) == {o \in S : cobj'[o].status = StatusSuspended}

\* SetConfig, called while the injector is not running.
MonkeySetConfig(count, suspendTime) ==
    /\ ~mkRunning
    /\ mkPc = "idle"
    /\ mkConfig' = [TargetCount |-> count, SuspendTime |-> suspendTime]
    /\ mkConfig' # mkConfig
    /\ UNCHANGED <<mkRunning, mkCancelled, mkLoops, mkPc, atkTargets, atkType, attackCount,
                   attackByType, suspendedIDs, suspendedAt, mkSusp, cobj>>
    /\ UNCHANGED <<mkResumed, mkResumeEvents>>
    /\ UNCHANGED <<atkCur, atkSnap, mkApplied, mkPublished, mkLastTick>>
    /\ ChaosFrame

\* Monkey.Start: the attack loop, and the resume loop when SuspendTime > 0.
MonkeyStart ==
    /\ mkPc = "idle"
    /\ IF mkRunning
       THEN UNCHANGED <<mkRunning, mkCancelled, mkLoops>>
       ELSE /\ mkRunning' = TRUE
            /\ mkCancelled' = FALSE
            /\ mkLoops' = IF mkConfig.SuspendTime > 0
                          THEN {"attack", "resume"} ELSE {"attack"}
    /\ mkResumed' = {}
    /\ UNCHANGED mkResumeEvents
    /\ UNCHANGED <<mkConfig, mkPc, atkTargets, atkType, attackCount, attackByType,
                   suspendedIDs, suspendedAt, mkSusp, cobj>>
    /\ UNCHANGED <<atkCur, atkSnap, mkApplied, mkPublished, mkLastTick>>
    /\ ChaosFrame

\* The sequences without repetition over the set S that have n elements.
RECURSIVE Arrangements(_, _)
Arrangements(S, n) ==
    IF n = 0 THEN {<<>>}
    ELSE UNION {{<<x>> \o q : q \in Arrangements(S \ {x}, n - 1)} : x \in S}

\* selectTargets: the Running nodes of the cluster.
RunningNodes == {o \in ClusterNodes : cobj[o].status = StatusRunning}

AttackBeginAnyNode ==
    /\ "attack" \in mkLoops
    /\ atkType = "none"
    /\ attackCount < MaxAttacks
    /\ RunningNodes # {}
    /\ \E targets \in Arrangements(ClusterNodes,
                                   Min(mkConfig.TargetCount, Cardinality(ClusterNodes))) :
          atkTargets' = targets
    /\ \E t \in AttackTypes : atkType' = t
    /\ atkSnap' = RunningNodes
    /\ mkApplied' = {}
    /\ mkPublished' = {}
    /\ mkLastTick' = "attack"
    /\ UNCHANGED <<mkConfig, mkRunning, mkCancelled, mkLoops, mkPc, attackCount,
                   attackByType, suspendedIDs, suspendedAt, mkSusp, cobj, atkCur>>
    /\ UNCHANGED <<mkResumed, mkResumeEvents>>
    /\ ChaosFrame

\* attack: selectTargets and selectAttackType. The Running nodes are shuffled
\* and the first min(TargetCount, len(running)) of them are the targets.
AttackBegin ==
    /\ "attack" \in mkLoops
    /\ atkType = "none"
    /\ attackCount < MaxAttacks
    /\ RunningNodes # {}
    /\ \E targets \in Arrangements(RunningNodes,
                                   Min(mkConfig.TargetCount, Cardinality(RunningNodes))) :
          atkTargets' = targets
    /\ \E t \in AttackTypes : atkType' = t
    /\ atkSnap' = RunningNodes
    /\ mkApplied' = {}
    /\ mkPublished' = {}
    /\ mkLastTick' = "attack"
    /\ UNCHANGED <<mkConfig, mkRunning, mkCancelled, mkLoops, mkPc, attackCount,
                   attackByType, suspendedIDs, suspendedAt, mkSusp, cobj, atkCur>>
    /\ UNCHANGED <<mkResumed, mkResumeEvents>>
    /\ ChaosFrame

\* attack: selectTargets returns nil (no node, or none Running) and the tick ends.
AttackSkip ==
    /\ "attack" \in mkLoops
    /\ atkType = "none"
    /\ RunningNodes = {}
    /\ mkLastTick' = "skip"
    /\ UNCHANGED <<mkConfig, mkRunning, mkCancelled, mkLoops, mkPc, atkTargets, atkType,
                   attackCount, attackByType, suspendedIDs, suspendedAt, mkSusp, cobj,
                   atkCur, atkSnap, mkApplied, mkPublished>>
    /\ UNCHANGED <<mkResumed, mkResumeEvents>>
    /\ ChaosFrame

ExecuteAttackPublishesFirst(o) ==
    /\ atkType # "none"
    /\ atkCur = NoObj
    /\ atkTargets # <<>>
    /\ o = Head(atkTargets)
    /\ LET r == CASE atkType = AttackKill    -> NodeStop(cobj[o])
                  [] atkType = AttackSuspend -> NodeSuspend(cobj[o])
                  [] atkType = AttackDelay   -> NodeSetDelay(cobj[o], 1)
       IN  /\ cobj' = [cobj EXCEPT ![o] = r.node]
           /\ mkPublished' = mkPublished \cup {<<ObjId(o), atkType>>}
           /\ IF r.err
              THEN /\ atkTargets' = Tail(atkTargets)
                   /\ UNCHANGED <<atkCur, mkApplied>>
              ELSE /\ atkCur' = o
                   /\ mkApplied' = mkApplied \cup {o}
                   /\ UNCHANGED atkTargets
           /\ IF atkType = AttackSuspend /\ ~r.err
              THEN /\ suspendedIDs' = suspendedIDs \cup {ObjId(o)}
                   /\ suspendedAt' = [suspendedAt EXCEPT ![ObjId(o)] = now]
                   /\ attackByType' = [attackByType EXCEPT ![atkType] = @ + 1]
                   /\ mkSusp' = StillSuspended(mkSusp \cup {o})
              ELSE /\ UNCHANGED <<suspendedIDs, suspendedAt, attackByType>>
                   /\ mkSusp' = StillSuspended(mkSusp)
    /\ UNCHANGED <<mkConfig, mkRunning, mkCancelled, mkLoops, mkPc, atkType, attackCount,
                   atkSnap, mkLastTick>>
    /\ UNCHANGED <<mkResumed, mkResumeEvents>>
    /\ ChaosFrame

\* executeAttack(n, attackType), up to the publication: n.Stop(), n.Suspend() or
\* n.SetDelay(); a failed Stop or Suspend ends the attack on this target;
\* attackSuspend records the suspension and counts the attack.
ExecuteAttack(o) ==
    /\ atkType # "none"
    /\ atkCur = NoObj
    /\ atkTargets # <<>>
    /\ o = Head(atkTargets)
    /\ LET r == CASE atkType = AttackKill    -> NodeStop(cobj[o])
                  [] atkType = AttackSuspend -> NodeSuspend(cobj[o])
                  [] atkType = AttackDelay   -> NodeSetDelay(cobj[o], 1)
       IN  /\ cobj' = [cobj EXCEPT ![o] = r.node]
           /\ IF r.err
              THEN /\ atkTargets' = Tail(atkTargets)
                   /\ UNCHANGED <<atkCur, mkApplied>>
              ELSE /\ atkCur' = o
                   /\ mkApplied' = mkApplied \cup {o}
                   /\ UNCHANGED atkTargets
           /\ IF atkType = AttackSuspend /\ ~r.err
              THEN /\ suspendedIDs' = suspendedIDs \cup {ObjId(o)}
                   /\ suspendedAt' = [suspendedAt EXCEPT ![ObjId(o)] = now]
                   /\ attackByType' = [attackByType EXCEPT ![atkType] = @ + 1]
                   /\ mkSusp' = StillSuspended(mkSusp \cup {o})
              ELSE /\ UNCHANGED <<suspendedIDs, suspendedAt, attackByType>>
                   /\ mkSusp' = StillSuspended(mkSusp)
    /\ UNCHANGED <<mkConfig, mkRunning, mkCancelled, mkLoops, mkPc, atkType, attackCount,
                   atkSnap, mkPublished, mkLastTick>>
    /\ UNCHANGED <<mkResumed, mkResumeEvents>>
    /\ ChaosFrame

\* executeAttack, the rest: m.publishEvent(events.NewChaosAttackEvent(...)), and
\* attackKill and attackDelay count the attack.
PublishAttack ==
    /\ atkCur # NoObj
    /\ mkPublished' = mkPublished \cup {<<ObjId(atkCur), atkType>>}
    /\ attackByType' = IF atkType = AttackSuspend THEN attackByType
                       ELSE [attackByType EXCEPT ![atkType] = @ + 1]
    /\ atkTargets' = Tail(atkTargets)
    /\ atkCur' = NoObj
    /\ UNCHANGED <<mkConfig, mkRunning, mkCancelled, mkLoops, mkPc, atkType, attackCount,
                   suspendedIDs, suspendedAt, mkSusp, cobj, atkSnap, mkApplied, mkLastTick>>
    /\ UNCHANGED <<mkResumed, mkResumeEvents>>
    /\ ChaosFrame

\* attack: m.attackCount++ after the targets.
AttackEnd ==
    /\ atkType # "none"
    /\ atkTargets = <<>>
    /\ attackCount' = attackCount + 1
    /\ atkType' = "none"
    /\ atkSnap' = {}
    /\ mkApplied' = {}
    /\ mkPublished' = {}
    /\ UNCHANGED <<mkConfig, mkRunning, mkCancelled, mkLoops, mkPc, atkTargets,
                   attackByType, suspendedIDs, suspendedAt, mkSusp, cobj, atkCur, mkLastTick>>
    /\ UNCHANGED <<mkResumed, mkResumeEvents>>
    /\ ChaosFrame

Attack ==
    \/ AttackBegin
    \/ AttackSkip
    \/ \E o \in Objs : ExecuteAttack(o)
    \/ PublishAttack
    \/ AttackEnd

\* The nodes checkAndResume resumes: tracked for SuspendTime or longer, still
\* registered.
Due == {i \in suspendedIDs : now - suspendedAt[i] >= mkConfig.SuspendTime}

\* The nodes after Resume was called on the registered nodes named in ids.
ResumeIds(ids) ==
    [o \in Objs |-> IF ObjId(o) \in ids /\ registry[ObjId(o)] = o
                    THEN NodeResume(cobj[o]).node ELSE cobj[o]]

CheckAndResumeAnyTime ==
    /\ "resume" \in mkLoops
    /\ suspendedIDs # {}
    /\ cobj' = ResumeIds(suspendedIDs)
    /\ mkResumeEvents' = {i \in suspendedIDs : /\ registry[i] # NoObj
                                               /\ ~NodeResume(cobj[registry[i]]).err}
    /\ suspendedIDs' = {}
    /\ suspendedAt' = [i \in NodeIds |-> 0]
    /\ mkSusp' = StillSuspended(mkSusp)
    /\ UNCHANGED <<mkConfig, mkRunning, mkCancelled, mkLoops, mkPc, atkTargets, atkType,
                   attackCount, attackByType, mkResumed>>
    /\ UNCHANGED <<atkCur, atkSnap, mkApplied, mkPublished, mkLastTick>>
    /\ ChaosFrame

\* checkAndResume, one critical section of m.mu, on a tick of the resume loop.
CheckAndResume ==
    /\ "resume" \in mkLoops
    /\ Due # {}
    /\ cobj' = ResumeIds(Due)
    /\ mkResumeEvents' = {i \in Due : /\ registry[i] # NoObj
                                      /\ ~NodeResume(cobj[registry[i]]).err}
    /\ suspendedIDs' = suspendedIDs \ Due
    /\ suspendedAt' = [i \in NodeIds |-> IF i \in Due THEN 0 ELSE suspendedAt[i]]
    /\ mkSusp' = StillSuspended(mkSusp)
    /\ UNCHANGED <<mkConfig, mkRunning, mkCancelled, mkLoops, mkPc, atkTargets, atkType,
                   attackCount, attackByType, mkResumed>>
    /\ UNCHANGED <<atkCur, atkSnap, mkApplied, mkPublished, mkLastTick>>
    /\ ChaosFrame

\* A loop takes the case <-m.ctx.Done() of its select and returns.
LoopExit(l) ==
    /\ l \in mkLoops
    /\ mkCancelled
    /\ l = "attack" => atkType = "none"
    /\ mkLoops' = mkLoops \ {l}
    /\ UNCHANGED <<mkConfig, mkRunning, mkCancelled, mkPc, atkTargets, atkType,
                   attackCount, attackByType, suspendedIDs, suspendedAt, mkSusp, cobj>>
    /\ UNCHANGED <<mkResumed, mkResumeEvents>>
    /\ UNCHANGED <<atkCur, atkSnap, mkApplied, mkPublished, mkLastTick>>
    /\ ChaosFrame

\* Monkey.Stop: running.Swap(false) and m.cancel().
MonkeyStopBegin ==
    /\ mkPc = "idle"
    /\ mkRunning
    /\ mkRunning' = FALSE
    /\ mkCancelled' = TRUE
    /\ mkPc' = "wait"
    /\ UNCHANGED <<mkConfig, mkLoops, atkTargets, atkType, attackCount, attackByType,
                   suspendedIDs, suspendedAt, mkSusp, cobj>>
    /\ UNCHANGED <<mkResumed, mkResumeEvents>>
    /\ UNCHANGED <<atkCur, atkSnap, mkApplied, mkPublished, mkLastTick>>
    /\ ChaosFrame

MonkeyStopEndResumesDue ==
    /\ mkPc = "wait"
    /\ mkLoops = {}
    /\ cobj' = ResumeIds(Due)
    /\ mkResumed' = {o \in ClusterNodes : /\ ObjId(o) \in Due
                                          /\ cobj[o].status = StatusSuspended}
    /\ UNCHANGED mkResumeEvents
    /\ suspendedIDs' = {}
    /\ suspendedAt' = [i \in NodeIds |-> 0]
    /\ mkSusp' = StillSuspended(mkSusp)
    /\ mkPc' = "idle"
    /\ UNCHANGED <<mkConfig, mkRunning, mkCancelled, mkLoops, atkTargets, atkType,
                   attackCount, attackByType>>
    /\ UNCHANGED <<atkCur, atkSnap, mkApplied, mkPublished, mkLastTick>>
    /\ ChaosFrame

\* Monkey.Stop: after m.wg.Wait(), resumeAll resumes every tracked node that is
\* registered and empties the map.
MonkeyStopEnd ==
    /\ mkPc = "wait"
    /\ mkLoops = {}
    /\ cobj' = ResumeIds(suspendedIDs)
    /\ mkResumed' = {o \in ClusterNodes : /\ ObjId(o) \in suspendedIDs
                                          /\ cobj[o].status = StatusSuspended}
    /\ UNCHANGED mkResumeEvents
    /\ suspendedIDs' = {}
    /\ suspendedAt' = [i \in NodeIds |-> 0]
    /\ mkSusp' = StillSuspended(mkSusp)
    /\ mkPc' = "idle"
    /\ UNCHANGED <<mkConfig, mkRunning, mkCancelled, mkLoops, atkTargets, atkType,
                   attackCount, attackByType>>
    /\ UNCHANGED <<atkCur, atkSnap, mkApplied, mkPublished, mkLastTick>>
    /\ ChaosFrame

MonkeyStop ==
    \/ MonkeyStopBegin
    \/ MonkeyStopEnd

\* Another actor (the supervisor, a client, the cluster) calls a lifecycle
\* operation on a node of the cluster.
OtherCall(o, op) ==
    /\ o \in ClusterNodes
    /\ cobj' = [cobj EXCEPT ![o] =
                  CASE op = "Start"   -> NodeStart(@).node
                    [] op = "Stop"    -> NodeStop(@).node
                    [] op = "Suspend" -> NodeSuspend(@).node
                    [] op = "Resume"  -> NodeResume(@).node]
    /\ cobj'[o] # cobj[o]
    /\ mkSusp' = StillSuspended(mkSusp \ {o})
    /\ UNCHANGED <<mkConfig, mkRunning, mkCancelled, mkLoops, mkPc, atkTargets, atkType,
                   attackCount, attackByType, suspendedIDs, suspendedAt>>
    /\ UNCHANGED <<mkResumed, mkResumeEvents>>
    /\ UNCHANGED <<atkCur, atkSnap, mkApplied, mkPublished, mkLastTick>>
    /\ ChaosFrame

ChaosNext ==
    \/ CreateNodes(Cardinality(NodeIds))
    \/ \E count \in 1..MaxTargets, st \in 0..MaxSuspendTime : MonkeySetConfig(count, st)
    \/ MonkeyStart
    \/ Attack
    \/ CheckAndResume
    \/ \E l \in {"attack", "resume"} : LoopExit(l)
    \/ MonkeyStop
    \/ \E o \in Objs, op \in {"Start", "Stop", "Suspend", "Resume"} : OtherCall(o, op)
    \/ Tick

(***************************************************************************)
(* Supervisor (package recovery, in internal/config/config.go)             *)
(***************************************************************************)
RecoveryConfigs ==
    [RecoveryDelay : 0..MaxTime, MaxRetries : 0..MaxRetriesBound,
     AutoRestart : BOOLEAN, AutoResume : BOOLEAN, ClearDelay : BOOLEAN]

\* What the supervisor changes besides the nodes and its own state; the cluster
\* and the clock are only read.
RecoveryFrame == UNCHANGED <<registry, cmade, saPc, saTodo, saErrs, saSnap, saFailed,
                             saQuiet, saStopped, clusterRet, nodeVars, poolVars,
                             metricsVars, busVars, chaosVars, clientVars,
                             scenarioVars, lockVars>>

NoState == [exists |-> FALSE, failed |-> FALSE, FailedAt |-> 0, RetryCount |-> 0,
            IsRecovered |-> FALSE]

\* Before recovery.New: the configuration is DefaultConfig's, with the delay in
\* the clock's units.
\* No sighting of the node not Running in its failure episode.
NoSight == [seen |-> FALSE, fresh |-> FALSE, at |-> 0]

RecoveryInit ==
    /\ rmMade = FALSE
    /\ rmConfig = [RecoveryDelay |-> MaxTime, MaxRetries |-> MaxRetriesBound,
                   AutoRestart |-> TRUE, AutoResume |-> TRUE, ClearDelay |-> TRUE]
    /\ nodeStates = [i \in NodeIds |-> NoState]
    /\ rmStats = [TotalRecoveries |-> 0, SuccessRecoveries |-> 0,
                  FailedRecoveries |-> 0, CurrentlyFailed |-> 0]
    /\ rcPc = "idle"
    /\ rcTodo = {}
    /\ rcNow = 0
    /\ rcCur = NoObj
    /\ rcStatus = "none"
    /\ rmPublished = 0
    /\ rmAttempts = [i \in NodeIds |-> 0]
    /\ rmSighted = [i \in NodeIds |-> NoSight]

\* The sightings after this step: a node that is Running after it has begun no
\* failure episode yet.
SightedAfter ==
    [i \in NodeIds |-> IF registry[i] # NoObj /\ cobj'[registry[i]].status = StatusRunning
                       THEN NoSight ELSE rmSighted[i]]

\* recovery.New(c, config), on a cluster that has its nodes.
RecoveryNew(config) ==
    /\ ~rmMade
    /\ ClusterNodes # {}
    /\ rmMade' = TRUE
    /\ rmConfig' = config
    /\ UNCHANGED <<nodeStates, rmStats, rcPc, rcTodo, rcNow, rcCur, rcStatus, rmPublished,
                   rmAttempts, cobj>>
    /\ UNCHANGED rmSighted
    /\ RecoveryFrame

\* checkAndRecover: m.cluster.Nodes() and time.Now(), on a tick of the health
\* check loop.
CheckAndRecover ==
    /\ rmMade
    /\ rcPc = "idle"
    /\ rcTodo = {}
    /\ rmStats.TotalRecoveries < MaxRecoveries
    /\ rcTodo' = ClusterNodes
    /\ rcNow' = now
    /\ UNCHANGED <<rmMade, rmConfig, nodeStates, rmStats, rcPc, rcCur, rcStatus,
                   rmPublished, rmAttempts, cobj>>
    /\ rmSighted' = [i \in NodeIds |-> [rmSighted[i] EXCEPT !.fresh = FALSE]]
    /\ RecoveryFrame

\* checkNode, up to the switch: n.Status() and the node's NodeState.
CheckNode(o) ==
    /\ rcPc = "idle"
    /\ o \in rcTodo
    /\ rcTodo' = rcTodo \ {o}
    /\ rcCur' = o
    /\ rcStatus' = cobj[o].status
    /\ nodeStates' = [nodeStates EXCEPT ![ObjId(o)].exists = TRUE]
    /\ rcPc' = "handle"
    /\ UNCHANGED <<rmMade, rmConfig, rmStats, rcNow, rmPublished, rmAttempts, cobj>>
    /\ rmSighted' = IF cobj[o].status # StatusRunning /\ ~rmSighted[ObjId(o)].seen
                    THEN [rmSighted EXCEPT ![ObjId(o)] =
                              [seen |-> TRUE, fresh |-> TRUE, at |-> rcNow]]
                    ELSE rmSighted
    /\ RecoveryFrame

\* checkNode returns: n and status are no more.
CheckNodeReturn ==
    /\ rcPc' = "idle"
    /\ rcCur' = NoObj
    /\ rcStatus' = "none"

HandleRunningNodeAlwaysClears ==
    /\ rcPc = "handle"
    /\ rcStatus = StatusRunning
    /\ LET id == ObjId(rcCur)
           state == nodeStates[id]
           shouldPublish == ~state.IsRecovered /\ state.RetryCount > 0
       IN  /\ cobj' = IF cobj[rcCur].delay > 0
                      THEN [cobj EXCEPT ![rcCur] = NodeSetDelay(@, 0).node]
                      ELSE cobj
           /\ rmStats' = IF shouldPublish
                         THEN [rmStats EXCEPT !.SuccessRecoveries = @ + 1]
                         ELSE rmStats
           /\ rmPublished' = IF shouldPublish THEN rmPublished + 1 ELSE rmPublished
           /\ nodeStates' = [nodeStates EXCEPT ![id].RetryCount = 0,
                                               ![id].IsRecovered = FALSE]
           /\ rmAttempts' = [rmAttempts EXCEPT ![id] = 0]
    /\ CheckNodeReturn
    /\ UNCHANGED <<rmMade, rmConfig, rcTodo, rcNow>>
    /\ UNCHANGED rmSighted
    /\ RecoveryFrame

\* handleRunningNode, one critical section of m.mu.
HandleRunningNode ==
    /\ rcPc = "handle"
    /\ rcStatus = StatusRunning
    /\ LET id == ObjId(rcCur)
           state == nodeStates[id]
           shouldPublish == ~state.IsRecovered /\ state.RetryCount > 0
       IN  /\ cobj' = IF rmConfig.ClearDelay /\ cobj[rcCur].delay > 0
                      THEN [cobj EXCEPT ![rcCur] = NodeSetDelay(@, 0).node]
                      ELSE cobj
           /\ rmStats' = IF shouldPublish
                         THEN [rmStats EXCEPT !.SuccessRecoveries = @ + 1]
                         ELSE rmStats
           /\ rmPublished' = IF shouldPublish THEN rmPublished + 1 ELSE rmPublished
           /\ nodeStates' = [nodeStates EXCEPT ![id].RetryCount = 0,
                                               ![id].IsRecovered = FALSE]
           /\ rmAttempts' = [rmAttempts EXCEPT ![id] = 0]
    /\ CheckNodeReturn
    /\ UNCHANGED <<rmMade, rmConfig, rcTodo, rcNow>>
    /\ UNCHANGED rmSighted
    /\ RecoveryFrame

HandleStoppedNodeRetriesOnceMore ==
    /\ rcPc = "handle"
    /\ rcStatus = StatusStopped
    /\ LET id == ObjId(rcCur)
           state == nodeStates[id]
       IN  IF ~rmConfig.AutoRestart
           THEN /\ CheckNodeReturn
                /\ UNCHANGED <<nodeStates, rmStats, rmPublished, rmAttempts>>
           ELSE IF ~state.failed
           THEN /\ nodeStates' = [nodeStates EXCEPT ![id].failed = TRUE,
                                                    ![id].FailedAt = rcNow]
                /\ rmStats' = [rmStats EXCEPT !.CurrentlyFailed = @ + 1]
                /\ CheckNodeReturn
                /\ UNCHANGED <<rmPublished, rmAttempts>>
           ELSE IF rcNow - state.FailedAt < rmConfig.RecoveryDelay
           THEN /\ CheckNodeReturn
                /\ UNCHANGED <<nodeStates, rmStats, rmPublished, rmAttempts>>
           ELSE IF rmConfig.MaxRetries > 0 /\ state.RetryCount > rmConfig.MaxRetries
           THEN /\ CheckNodeReturn
                /\ UNCHANGED <<nodeStates, rmStats, rmPublished, rmAttempts>>
           ELSE /\ nodeStates' = [nodeStates EXCEPT ![id].RetryCount = @ + 1,
                                                    ![id].FailedAt = rcNow]
                /\ rmStats' = [rmStats EXCEPT !.TotalRecoveries = @ + 1]
                /\ rmPublished' = rmPublished + 1
                /\ rmAttempts' = [rmAttempts EXCEPT ![id] = @ + 1]
                /\ rcPc' = "start"
                /\ UNCHANGED <<rcCur, rcStatus>>
    /\ UNCHANGED <<rmMade, rmConfig, rcTodo, rcNow, cobj>>
    /\ UNCHANGED rmSighted
    /\ RecoveryFrame

\* handleStoppedNode, up to the call of n.Start: the early returns, or the
\* attempt is counted and announced.
HandleStoppedNode ==
    /\ rcPc = "handle"
    /\ rcStatus = StatusStopped
    /\ LET id == ObjId(rcCur)
           state == nodeStates[id]
       IN  IF ~rmConfig.AutoRestart
           THEN /\ CheckNodeReturn
                /\ UNCHANGED <<nodeStates, rmStats, rmPublished, rmAttempts>>
           ELSE IF ~state.failed
           THEN /\ nodeStates' = [nodeStates EXCEPT ![id].failed = TRUE,
                                                    ![id].FailedAt = rcNow]
                /\ rmStats' = [rmStats EXCEPT !.CurrentlyFailed = @ + 1]
                /\ CheckNodeReturn
                /\ UNCHANGED <<rmPublished, rmAttempts>>
           ELSE IF rcNow - state.FailedAt < rmConfig.RecoveryDelay
           THEN /\ CheckNodeReturn
                /\ UNCHANGED <<nodeStates, rmStats, rmPublished, rmAttempts>>
           ELSE IF rmConfig.MaxRetries > 0 /\ state.RetryCount >= rmConfig.MaxRetries
           THEN /\ CheckNodeReturn
                /\ UNCHANGED <<nodeStates, rmStats, rmPublished, rmAttempts>>
           ELSE /\ nodeStates' = [nodeStates EXCEPT ![id].RetryCount = @ + 1,
                                                    ![id].FailedAt = rcNow]
                /\ rmStats' = [rmStats EXCEPT !.TotalRecoveries = @ + 1]
                /\ rmPublished' = rmPublished + 1
                /\ rmAttempts' = [rmAttempts EXCEPT ![id] = @ + 1]
                /\ rcPc' = "start"
                /\ UNCHANGED <<rcCur, rcStatus>>
    /\ UNCHANGED <<rmMade, rmConfig, rcTodo, rcNow, cobj>>
    /\ UNCHANGED rmSighted
    /\ RecoveryFrame

\* handleStoppedNode, from n.Start(m.ctx) on.
HandleStart ==
    /\ rcPc = "start"
    /\ LET id == ObjId(rcCur)
           r == NodeStart(cobj[rcCur])
       IN  /\ cobj' = [cobj EXCEPT ![rcCur] = r.node]
           /\ IF r.err
              THEN /\ rmStats' = [rmStats EXCEPT !.FailedRecoveries = @ + 1]
                   /\ rmPublished' = rmPublished + 1
                   /\ UNCHANGED nodeStates
              ELSE /\ rmStats' = [rmStats EXCEPT !.CurrentlyFailed = @ - 1]
                   /\ nodeStates' = [nodeStates EXCEPT ![id].failed = FALSE,
                                                       ![id].FailedAt = 0]
                   /\ UNCHANGED rmPublished
    /\ CheckNodeReturn
    /\ UNCHANGED <<rmMade, rmConfig, rcTodo, rcNow, rmAttempts>>
    /\ rmSighted' = SightedAfter
    /\ RecoveryFrame

\* handleSuspendedNode, up to the call of n.Resume.
HandleSuspendedNode ==
    /\ rcPc = "handle"
    /\ rcStatus = StatusSuspended
    /\ LET id == ObjId(rcCur)
           state == nodeStates[id]
       IN  IF ~rmConfig.AutoResume
           THEN /\ CheckNodeReturn
                /\ UNCHANGED <<nodeStates, rmStats, rmPublished>>
           ELSE IF ~state.failed
           THEN /\ nodeStates' = [nodeStates EXCEPT ![id].failed = TRUE,
                                                    ![id].FailedAt = rcNow]
                /\ CheckNodeReturn
                /\ UNCHANGED <<rmStats, rmPublished>>
           ELSE IF rcNow - state.FailedAt < rmConfig.RecoveryDelay
           THEN /\ CheckNodeReturn
                /\ UNCHANGED <<nodeStates, rmStats, rmPublished>>
           ELSE /\ nodeStates' = [nodeStates EXCEPT ![id].RetryCount = @ + 1,
                                                    ![id].failed = FALSE,
                                                    ![id].FailedAt = 0]
                /\ rmStats' = [rmStats EXCEPT !.TotalRecoveries = @ + 1]
                /\ rmPublished' = rmPublished + 1
                /\ rcPc' = "resume"
                /\ UNCHANGED <<rcCur, rcStatus>>
    /\ UNCHANGED <<rmMade, rmConfig, rcTodo, rcNow, rmAttempts, cobj>>
    /\ UNCHANGED rmSighted
    /\ RecoveryFrame

\* handleSuspendedNode, from n.Resume() on.
HandleResume ==
    /\ rcPc = "resume"
    /\ LET r == NodeResume(cobj[rcCur])
       IN  /\ cobj' = [cobj EXCEPT ![rcCur] = r.node]
           /\ rmStats' = IF r.err
                         THEN [rmStats EXCEPT !.FailedRecoveries = @ + 1]
                         ELSE [rmStats EXCEPT !.SuccessRecoveries = @ + 1]
           /\ rmPublished' = rmPublished + 1
    /\ CheckNodeReturn
    /\ UNCHANGED <<rmMade, rmConfig, nodeStates, rcTodo, rcNow, rmAttempts>>
    /\ rmSighted' = SightedAfter
    /\ RecoveryFrame

\* A step of the supervisor's health check.
HealthCheck ==
    \/ CheckAndRecover
    \/ \E o \in Objs : CheckNode(o)
    \/ HandleRunningNode
    \/ HandleStoppedNode
    \/ HandleStart
    \/ HandleSuspendedNode
    \/ HandleResume

\* Another actor (the injector, a client, the cluster) acts on a node of the
\* cluster: a lifecycle call, or an injected delay.
ActorCall(o, op) ==
    /\ o \in ClusterNodes
    /\ cobj' = [cobj EXCEPT ![o] =
                  CASE op = "Start"   -> NodeStart(@).node
                    [] op = "Stop"    -> NodeStop(@).node
                    [] op = "Suspend" -> NodeSuspend(@).node
                    [] op = "Resume"  -> NodeResume(@).node
                    [] op = "Delay"   -> NodeSetDelay(@, MaxDelay).node]
    /\ cobj'[o] # cobj[o]
    /\ UNCHANGED <<rmMade, rmConfig, nodeStates, rmStats, rcPc, rcTodo, rcNow, rcCur,
                   rcStatus, rmPublished, rmAttempts>>
    /\ rmSighted' = SightedAfter
    /\ RecoveryFrame

RecoveryNext ==
    \/ CreateNodes(1)
    \/ \E config \in RecoveryConfigs : RecoveryNew(config)
    \/ HealthCheck
    \/ \E o \in Objs, op \in {"Start", "Stop", "Suspend", "Resume", "Delay"} : ActorCall(o, op)
    \/ Tick

\* The configurations with every kind of recovery enabled.
HealingConfigs ==
    {c \in RecoveryConfigs : c.AutoRestart /\ c.AutoResume /\ c.ClearDelay}

\* Monkey.Stop cancels the injector's context and its attack loop returns: no
\* attack from now on.
AttacksEnd ==
    /\ rmMade
    /\ ~mkCancelled
    /\ mkCancelled' = TRUE
    /\ UNCHANGED <<mkConfig, mkRunning, mkLoops, mkPc, atkTargets, atkType, attackCount,
                   attackByType, suspendedIDs, suspendedAt, mkSusp, mkResumed,
                   mkResumeEvents, atkCur, atkSnap, mkApplied, mkPublished, mkLastTick>>
    /\ UNCHANGED <<nodeVars, poolVars, metricsVars, busVars, clusterVars, recoveryVars,
                   clientVars, scenarioVars, lockVars>>

\* The injector and the other actors act on the nodes until the attacks end.
Attacked(o, op) ==
    /\ ~mkCancelled
    /\ ActorCall(o, op)

\* The supervisor with every kind of recovery enabled, over a cluster under
\* attack for a while.
RecoveryLiveNext ==
    \/ CreateNodes(1)
    \/ \E config \in HealingConfigs : RecoveryNew(config)
    \/ HealthCheck
    \/ \E o \in Objs, op \in {"Start", "Stop", "Suspend", "Resume", "Delay"} : Attacked(o, op)
    \/ AttacksEnd
    \/ Tick

(***************************************************************************)
(* The load generator: package client                                      *)
(*                                                                         *)
(* One Client with its own worker pool (Client.pool) and Metrics, run over *)
(* the nodes of the cluster.  One caller makes the calls Start, Stop and   *)
(* RunRequests, a RunRequests on a client that is not running.             *)
(***************************************************************************)
Counts == 0..MaxCount       \* the count given to RunRequests

ClientWorkers == 1..NumWorkers

ClientKey == "k1"           \* the key of a request

ClientValue == "v1"         \* the value of a write request

NoJob == [o |-> NoObj, write |-> FALSE]

ClientIdleWorker == [st |-> "idle", job |-> NoJob, err |-> FALSE, served |-> FALSE]

ClientGoneWorker == [st |-> "none", job |-> NoJob, err |-> FALSE, served |-> FALSE]

ClientFrame == UNCHANGED <<registry, cmade, saPc, saTodo, saErrs, saSnap, saFailed,
                           saQuiet, saStopped, clusterRet, lastResetTime, now, mpc,
                           mlat, spc, snap, snapQuiet, records, nodeVars, poolVars,
                           busVars, chaosVars, recoveryVars, scenarioVars, lockVars>>

MetricCounters == <<totalRequests, successRequests, failedRequests, totalLatencyNs,
                    windowRequests, latencies>>

ClientInit ==
    /\ clRunning = FALSE
    /\ clCancelled = FALSE
    /\ clLimit = 0
    /\ clPc = "idle"
    /\ clOp = "none"
    /\ clProd = "none"
    /\ clNodes = {}
    /\ clJob = NoJob
    /\ cpStarted = FALSE
    /\ cpStopping = FALSE
    /\ cpCancelled = FALSE
    /\ cpJobs = [buf |-> <<>>, closed |-> FALSE]
    /\ cpWorkers = [w \in ClientWorkers |-> ClientGoneWorker]
    /\ clPanicked = FALSE
    /\ clRet = [op |-> "New", TotalRequests |-> 0, count |-> 0, nodes |-> 0]
    /\ clRuns = 0
    /\ clSubmitted = 0

\* Client.pool.ctx is a child of Client.ctx.
PoolCtxDone == cpCancelled \/ clCancelled

\* ---- Client.Start, with Pool.Start ----
StartSteps ==
    /\ clRuns < MaxRuns
    /\ clRuns' = clRuns + 1
    /\ clRunning' = TRUE
    /\ clCancelled' = FALSE
    /\ IF cpStarted
       THEN UNCHANGED <<cpStarted, cpCancelled, cpWorkers>>
       ELSE /\ cpStarted' = TRUE
            /\ cpCancelled' = FALSE
            /\ cpWorkers' = [w \in ClientWorkers |-> ClientIdleWorker]
    /\ clProd' = "nodes"

ClientStart ==
    /\ ~clPanicked
    /\ clPc = "idle"
    /\ ~clRunning
    /\ StartSteps
    /\ UNCHANGED <<clLimit, clPc, clOp, clNodes, clJob, cpStopping, cpJobs, clPanicked,
                   clRet, clSubmitted, cobj, MetricCounters>>
    /\ ClientFrame

\* ---- generateRequests ----
\* nodes := c.cluster.Nodes(); if len(nodes) == 0 { return }
ProducerNodes ==
    /\ ~clPanicked
    /\ clProd = "nodes"
    /\ clNodes' = ClusterNodes
    /\ clProd' = IF ClusterNodes = {} THEN "none" ELSE "ctx"
    /\ UNCHANGED <<clRunning, clCancelled, clLimit, clPc, clOp, clJob, cpStarted,
                   cpStopping, cpCancelled, cpJobs, cpWorkers, clPanicked, clRet, clRuns,
                   clSubmitted, cobj, MetricCounters>>
    /\ ClientFrame

\* select { case <-c.ctx.Done(): return; default: }
ProducerCtx ==
    /\ ~clPanicked
    /\ clProd = "ctx"
    /\ clProd' = IF clCancelled THEN "none" ELSE "limit"
    /\ UNCHANGED <<clRunning, clCancelled, clLimit, clPc, clOp, clNodes, clJob, cpStarted,
                   cpStopping, cpCancelled, cpJobs, cpWorkers, clPanicked, clRet, clRuns,
                   clSubmitted, cobj, MetricCounters>>
    /\ ClientFrame

LimitReached == clLimit > 0 /\ totalRequests >= clLimit

\* the check of RequestsLimit; then the node and the kind of the request are drawn
ProducerLimit ==
    /\ ~clPanicked
    /\ clProd = "limit"
    /\ \/ /\ LimitReached
          /\ clProd' = "none"
          /\ UNCHANGED clJob
       \/ /\ ~LimitReached
          /\ \E o \in clNodes, isWrite \in BOOLEAN :
                clJob' = [o |-> o, write |-> isWrite]
          /\ clProd' = "submit"
    /\ UNCHANGED <<clRunning, clCancelled, clLimit, clPc, clOp, clNodes, cpStarted,
                   cpStopping, cpCancelled, cpJobs, cpWorkers, clPanicked, clRet, clRuns,
                   clSubmitted, cobj, MetricCounters>>
    /\ ClientFrame

\* Pool.Submit: if p.stopping.Load() { return false }
ProducerSubmit ==
    /\ ~clPanicked
    /\ clProd = "submit"
    /\ clProd' = IF cpStopping THEN "none" ELSE "check"
    /\ UNCHANGED <<clRunning, clCancelled, clLimit, clPc, clOp, clNodes, clJob, cpStarted,
                   cpStopping, cpCancelled, cpJobs, cpWorkers, clPanicked, clRet, clRuns,
                   clSubmitted, cobj, MetricCounters>>
    /\ ClientFrame

\* Pool.Submit: select { case <-p.ctx.Done(): return false; default: }
ProducerCheck ==
    /\ ~clPanicked
    /\ clProd = "check"
    /\ clProd' = IF PoolCtxDone THEN "none" ELSE "send"
    /\ UNCHANGED <<clRunning, clCancelled, clLimit, clPc, clOp, clNodes, clJob, cpStarted,
                   cpStopping, cpCancelled, cpJobs, cpWorkers, clPanicked, clRet, clRuns,
                   clSubmitted, cobj, MetricCounters>>
    /\ ClientFrame

\* Pool.Submit: select { case <-p.ctx.Done(): return false; case p.jobs <- job: return true }
\* A send on the closed p.jobs panics; Submit recovers and returns false.
ProducerSend ==
    /\ ~clPanicked
    /\ clProd = "send"
    /\ \/ /\ PoolCtxDone
          /\ clProd' = "none"
          /\ UNCHANGED <<cpJobs, clSubmitted>>
       \/ /\ cpJobs.closed
          /\ clProd' = "none"
          /\ UNCHANGED <<cpJobs, clSubmitted>>
       \/ /\ ~cpJobs.closed
          /\ Len(cpJobs.buf) < QueueCap
          /\ clSubmitted < MaxSubmits
          /\ cpJobs' = [cpJobs EXCEPT !.buf = Append(@, clJob)]
          /\ clSubmitted' = clSubmitted + 1
          /\ clProd' = "ctx"
    /\ UNCHANGED <<clRunning, clCancelled, clLimit, clPc, clOp, clNodes, clJob, cpStarted,
                   cpStopping, cpCancelled, cpWorkers, clPanicked, clRet, clRuns, cobj,
                   MetricCounters>>
    /\ ClientFrame

\* ---- Pool.worker ----
\* select { case <-p.ctx.Done(): return; case job, ok := <-p.jobs: if !ok { return } }
ClientWorkerSelect(w) ==
    /\ ~clPanicked
    /\ cpWorkers[w].st = "idle"
    /\ \/ /\ PoolCtxDone
          /\ cpWorkers' = [cpWorkers EXCEPT ![w] = ClientGoneWorker]
          /\ UNCHANGED cpJobs
       \/ /\ cpJobs.buf = <<>>
          /\ cpJobs.closed
          /\ cpWorkers' = [cpWorkers EXCEPT ![w] = ClientGoneWorker]
          /\ UNCHANGED cpJobs
       \/ /\ cpJobs.buf # <<>>
          /\ cpWorkers' = [cpWorkers EXCEPT ![w] =
                             [ClientIdleWorker EXCEPT !.st = "call", !.job = Head(cpJobs.buf)]]
          /\ cpJobs' = [cpJobs EXCEPT !.buf = Tail(@)]
    /\ UNCHANGED <<clRunning, clCancelled, clLimit, clPc, clOp, clProd, clNodes, clJob,
                   cpStarted, cpStopping, cpCancelled, clPanicked, clRet, clRuns,
                   clSubmitted, cobj, MetricCounters>>
    /\ ClientFrame

\* createJob: the request.  A write keeps the error of Node.Set; a read drops
\* both results of Node.Get, and err stays nil.
JobCall(w) ==
    LET job == cpWorkers[w].job
        r == NodeSet(cobj[job.o], ClientKey, ClientValue) IN
    /\ ~clPanicked
    /\ cpWorkers[w].st = "call"
    /\ cobj' = IF job.write THEN [cobj EXCEPT ![job.o] = r.node] ELSE cobj
    /\ cpWorkers' = [cpWorkers EXCEPT ![w] =
                       [@ EXCEPT !.st = "record",
                                 !.err = IF job.write THEN r.err ELSE FALSE,
                                 !.served = (cobj[job.o].status = StatusRunning)]]
    /\ UNCHANGED <<clRunning, clCancelled, clLimit, clPc, clOp, clProd, clNodes, clJob,
                   cpStarted, cpStopping, cpCancelled, cpJobs, clPanicked, clRet, clRuns,
                   clSubmitted, MetricCounters>>
    /\ ClientFrame

\* createJob: if err != nil { RecordFailure(latency) } else { RecordSuccess(latency) };
\* the clock has not moved since start, so latency is 0.
JobRecord(w) ==
    /\ ~clPanicked
    /\ cpWorkers[w].st = "record"
    /\ totalRequests' = totalRequests + 1
    /\ IF cpWorkers[w].err
       THEN /\ failedRequests' = failedRequests + 1
            /\ UNCHANGED <<successRequests, latencies>>
       ELSE /\ successRequests' = successRequests + 1
            /\ latencies' = IF Len(latencies) < MaxLatencySamples
                            THEN Append(latencies, 0) ELSE latencies
            /\ UNCHANGED failedRequests
    /\ windowRequests' = windowRequests + 1
    /\ UNCHANGED totalLatencyNs
    /\ cpWorkers' = [cpWorkers EXCEPT ![w] = ClientIdleWorker]
    /\ UNCHANGED <<clRunning, clCancelled, clLimit, clPc, clOp, clProd, clNodes, clJob,
                   cpStarted, cpStopping, cpCancelled, cpJobs, clPanicked, clRet, clRuns,
                   clSubmitted, cobj>>
    /\ ClientFrame

\* ---- Client.Stop, with Pool.Stop ----
\* c.running.Swap(false); c.cancel(); Pool.Stop up to p.wg.Wait()
StopSteps ==
    /\ clRunning' = FALSE
    /\ clCancelled' = TRUE
    /\ IF cpStarted
       THEN /\ cpStopping' = TRUE
            /\ cpCancelled' = TRUE
            /\ clPc' = "workers"
       ELSE /\ UNCHANGED <<cpStopping, cpCancelled>>
            /\ clPc' = "producer"

ClientStopBegin ==
    /\ ~clPanicked
    /\ clPc = "idle"
    /\ clRunning
    /\ clOp' = "Stop"
    /\ StopSteps
    /\ UNCHANGED <<clLimit, clProd, clNodes, clJob, cpStarted, cpJobs, cpWorkers,
                   clPanicked, clRet, clRuns, clSubmitted, cobj, MetricCounters>>
    /\ ClientFrame

\* Pool.Stop after p.wg.Wait(): close(p.jobs), which panics on a closed channel;
\* p.started = false; p.stopping.Store(false)
PoolStopEnd ==
    /\ ~clPanicked
    /\ clPc = "workers"
    /\ \A w \in ClientWorkers : cpWorkers[w].st = "none"
    /\ IF cpJobs.closed
       THEN /\ clPanicked' = TRUE
            /\ UNCHANGED <<cpJobs, cpStarted, cpStopping, clPc>>
       ELSE /\ cpJobs' = [cpJobs EXCEPT !.closed = TRUE]
            /\ cpStarted' = FALSE
            /\ cpStopping' = FALSE
            /\ clPc' = "producer"
            /\ UNCHANGED clPanicked
    /\ UNCHANGED <<clRunning, clCancelled, clLimit, clOp, clProd, clNodes, clJob,
                   cpCancelled, cpWorkers, clRet, clRuns, clSubmitted, cobj,
                   MetricCounters>>
    /\ ClientFrame

\* c.wg.Wait() of Client.Stop; RunRequests then returns the snapshot.
ClientStopEnd ==
    /\ ~clPanicked
    /\ clPc = "producer"
    /\ clProd = "none"
    /\ clPc' = "idle"
    /\ clOp' = "none"
    /\ clRet' = IF clOp = "RunRequests"
                THEN [op |-> "RunRequests", TotalRequests |-> totalRequests,
                      count |-> clLimit, nodes |-> Cardinality(clNodes)]
                ELSE [op |-> "Stop", TotalRequests |-> 0, count |-> 0, nodes |-> 0]
    /\ UNCHANGED <<clRunning, clCancelled, clLimit, clProd, clNodes, clJob, cpStarted,
                   cpStopping, cpCancelled, cpJobs, cpWorkers, clPanicked, clRuns,
                   clSubmitted, cobj, MetricCounters>>
    /\ ClientFrame

\* ---- RunRequests ----
\* c.config.RequestsLimit = count; c.Start(ctx)
RunRequestsBegin(count) ==
    /\ ~clPanicked
    /\ clPc = "idle"
    /\ ~clRunning
    /\ clLimit' = count
    /\ StartSteps
    /\ clOp' = "RunRequests"
    /\ clPc' = "produce"
    /\ UNCHANGED <<clNodes, clJob, cpStopping, cpJobs, clPanicked, clRet, clSubmitted,
                   cobj, MetricCounters>>
    /\ ClientFrame

\* c.wg.Wait() has returned; c.Stop()
RunRequestsStop ==
    /\ ~clPanicked
    /\ clPc = "produce"
    /\ clProd = "none"
    /\ StopSteps
    /\ UNCHANGED <<clLimit, clOp, clProd, clNodes, clJob, cpStarted, cpJobs, cpWorkers,
                   clPanicked, clRet, clRuns, clSubmitted, cobj, MetricCounters>>
    /\ ClientFrame

ClientNext ==
    \/ CreateNodes(1)
    \/ \E o \in Objs, op \in {"Start", "Stop", "Suspend", "Resume"} : ActorCall(o, op)
    \/ ClientStart
    \/ ProducerNodes
    \/ ProducerCtx
    \/ ProducerLimit
    \/ ProducerSubmit
    \/ ProducerCheck
    \/ ProducerSend
    \/ \E w \in ClientWorkers : ClientWorkerSelect(w)
    \/ \E w \in ClientWorkers : JobCall(w)
    \/ \E w \in ClientWorkers : JobRecord(w)
    \/ ClientStopBegin
    \/ PoolStopEnd
    \/ ClientStopEnd
    \/ \E count \in Counts : RunRequestsBegin(count)
    \/ RunRequestsStop

(***************************************************************************)
(* The scenario engine: package scenario                                   *)
(*                                                                         *)
(* One Engine, whose Run is called by the callers of Callers, each with a  *)
(* context of its own.  The load generator, the injector and the           *)
(* supervisor the engine owns are followed as far as the engine depends on *)
(* them: their running flag, their context, the loop goroutines they have  *)
(* started and what those loops do to the status of the nodes of the       *)
(* engine's cluster (requests and injected delays leave the status alone). *)
(***************************************************************************)
Callers == {"c1", "c2"}

Components == {"client", "monkey", "recovery"}

\* The goroutines a component's Start starts: generateRequests with the pool's
\* workers (taken together), attackLoop and resumeLoop, healthCheckLoop.
LoopsOf(k) ==
    CASE k = "client" -> {"requests"}
      [] k = "monkey" -> {"attack", "resume"}
      [] k = "recovery" -> {"health"}

EngineConfigs == [NodeCount : 1..Cardinality(NodeIds), EnableChaos : BOOLEAN,
                  EnableRecovery : BOOLEAN]

NoComponent == [made |-> FALSE, running |-> FALSE, cancelled |-> FALSE, loops |-> {}]

NoResult == [result |-> FALSE, err |-> FALSE]

EmptyRegistry == [i \in NodeIds |-> NoObj]

InProgress == {r \in Callers : enPc[r] # "idle"}

\* The node objects of the model suffice for the cluster of one more run.
NodesLeft == \A i \in 1..enConfig.NodeCount : FreshObj(CreateId(i), cmade) \in Objs

ScenarioFrame == UNCHANGED <<saPc, saTodo, saErrs, saSnap, saFailed, saQuiet, saStopped,
                             clusterRet, nodeVars, poolVars, metricsVars, busVars,
                             chaosVars, recoveryVars, clientVars, lockVars>>

ScenarioInit ==
    /\ enMade = FALSE
    /\ enConfig = [NodeCount |-> 1, EnableChaos |-> FALSE, EnableRecovery |-> FALSE]
    /\ enRunning = FALSE
    /\ enPc = [r \in Callers |-> "idle"]
    /\ enRet = [r \in Callers |-> NoResult]
    /\ enCtxDone = [r \in Callers |-> FALSE]
    /\ enScenarioDone = FALSE
    /\ enComp = [k \in Components |-> NoComponent]
    /\ enTracked = {}
    /\ enTodo = {}
    /\ enActed = FALSE
    /\ enRuns = 0
    /\ enTimedOut = FALSE

\* scenario.New(config)
EngineNew(config) ==
    /\ ~enMade
    /\ enMade' = TRUE
    /\ enConfig' = config
    /\ UNCHANGED <<enRunning, enPc, enRet, enCtxDone, enScenarioDone, enComp,
                   enTracked, enTodo, enActed, enRuns, enTimedOut, cobj, registry,
                   cmade>>
    /\ ScenarioFrame

\* Run: if e.running { return nil, error }
RunReject(r) ==
    /\ enMade
    /\ enPc[r] = "idle"
    /\ enRunning
    /\ enRet' = [enRet EXCEPT ![r] = [result |-> FALSE, err |-> TRUE]]
    /\ UNCHANGED <<enMade, enConfig, enRunning, enPc, enCtxDone, enScenarioDone,
                   enComp, enTracked, enTodo, enActed, enRuns, enTimedOut, cobj,
                   registry, cmade>>
    /\ ScenarioFrame

RunBeginNoCheck(r, done) ==
    /\ enMade
    /\ enPc[r] = "idle"
    /\ NodesLeft
    /\ enRuns' = enRuns + 1
    /\ enRunning' = TRUE
    /\ enCtxDone' = [enCtxDone EXCEPT ![r] = done]
    /\ enRet' = [enRet EXCEPT ![r] = NoResult]
    /\ enPc' = [enPc EXCEPT ![r] = "setup"]
    /\ UNCHANGED <<enMade, enConfig, enScenarioDone, enComp, enTracked, enTodo,
                   enActed, enTimedOut, cobj, registry, cmade>>
    /\ ScenarioFrame

\* Run(ctx), admitted: e.running = true.  The context may be cancelled already.
RunBegin(r, done) ==
    /\ enMade
    /\ enPc[r] = "idle"
    /\ ~enRunning
    /\ NodesLeft
    /\ enRuns' = enRuns + 1
    /\ enRunning' = TRUE
    /\ enCtxDone' = [enCtxDone EXCEPT ![r] = done]
    /\ enRet' = [enRet EXCEPT ![r] = NoResult]
    /\ enPc' = [enPc EXCEPT ![r] = "setup"]
    /\ UNCHANGED <<enMade, enConfig, enScenarioDone, enComp, enTracked, enTodo,
                   enActed, enTimedOut, cobj, registry, cmade>>
    /\ ScenarioFrame

\* setup: a new cluster of NodeCount new nodes, all started; a new client, and
\* a new injector and a new supervisor if they are enabled; then
\* scenarioCtx := context.WithTimeout(ctx, Duration)
Setup(r) ==
    /\ enPc[r] = "setup"
    /\ LET c == CreateFrom(1, enConfig.NodeCount, EmptyRegistry, cmade)
           new == {c.registry[i] : i \in {j \in NodeIds : c.registry[j] # NoObj}} IN
        /\ registry' = c.registry
        /\ cmade' = c.made
        /\ cobj' = [o \in Objs |-> IF o \in new THEN NodeStart(cobj[o]).node ELSE cobj[o]]
    /\ enComp' = [k \in Components |->
                    [NoComponent EXCEPT !.made =
                        CASE k = "client" -> TRUE
                          [] k = "monkey" -> enConfig.EnableChaos
                          [] k = "recovery" -> enConfig.EnableRecovery]]
    /\ enTracked' = {}
    /\ enActed' = FALSE
    /\ enTimedOut' = FALSE
    /\ enScenarioDone' = enCtxDone[r]
    /\ enPc' = [enPc EXCEPT ![r] = "start"]
    /\ UNCHANGED <<enMade, enConfig, enRunning, enRet, enCtxDone, enTodo, enRuns>>
    /\ ScenarioFrame

\* Start(ctx) of a component: running.Swap(true); ctx, cancel = WithCancel(ctx);
\* the loops are started.
Started(k) == [made |-> TRUE, running |-> TRUE, cancelled |-> FALSE, loops |-> LoopsOf(k)]

\* runScenario: e.client.Start(ctx); the injector and the supervisor if not nil
RunScenario(r) ==
    /\ enPc[r] = "start"
    /\ enComp' = [k \in Components |->
                    IF enComp[k].made /\ ~enComp[k].running THEN Started(k) ELSE enComp[k]]
    /\ enPc' = [enPc EXCEPT ![r] = "wait"]
    /\ UNCHANGED <<enMade, enConfig, enRunning, enRet, enCtxDone, enScenarioDone,
                   enTracked, enTodo, enActed, enRuns, enTimedOut, cobj, registry,
                   cmade>>
    /\ ScenarioFrame

WaitIgnoresParent(r) ==
    /\ enPc[r] = "wait"
    /\ enTimedOut
    /\ enScenarioDone' = TRUE
    /\ enPc' = [enPc EXCEPT ![r] = "stop_client"]
    /\ UNCHANGED <<enMade, enConfig, enRunning, enRet, enCtxDone, enComp, enTracked,
                   enTodo, enActed, enRuns, enTimedOut, cobj, registry, cmade>>
    /\ ScenarioFrame

\* runScenario: <-ctx.Done(); then the results are collected and Run returns:
\* the deferred cancel() runs first
Wait(r) ==
    /\ enPc[r] = "wait"
    /\ enScenarioDone
    /\ enScenarioDone' = TRUE
    /\ enPc' = [enPc EXCEPT ![r] = "stop_client"]
    /\ UNCHANGED <<enMade, enConfig, enRunning, enRet, enCtxDone, enComp, enTracked,
                   enTodo, enActed, enRuns, enTimedOut, cobj, registry, cmade>>
    /\ ScenarioFrame

\* The context a component's loops wait on is a child of scenarioCtx.
LoopCtxDone(k) == enComp[k].cancelled \/ enScenarioDone

\* teardown: Stop() of a component that is not nil: running.Swap(false), cancel();
\* then it waits for the loops
StopComponentBegin(r, k, next) ==
    /\ enPc[r] = "stop_" \o k
    /\ IF enComp[k].made /\ enComp[k].running
       THEN /\ enComp' = [enComp EXCEPT ![k].running = FALSE, ![k].cancelled = TRUE]
            /\ enPc' = [enPc EXCEPT ![r] = "wait_" \o k]
       ELSE /\ UNCHANGED enComp
            /\ enPc' = [enPc EXCEPT ![r] = next]
    /\ UNCHANGED <<enMade, enConfig, enRunning, enRet, enCtxDone, enScenarioDone,
                   enTracked, enTodo, enActed, enRuns, enTimedOut, cobj, registry,
                   cmade>>
    /\ ScenarioFrame

\* Monkey.resumeAll: every tracked node that is still registered is resumed.
ResumeAll(nodes) ==
    [o \in Objs |-> IF o \in ClusterNodes /\ ObjId(o) \in enTracked
                    THEN NodeResume(nodes[o]).node ELSE nodes[o]]

StopComponentEndNoWait(r, k, next) ==
    /\ enPc[r] = "wait_" \o k
    /\ cobj' = IF k = "monkey" THEN ResumeAll(cobj) ELSE cobj
    /\ enTracked' = IF k = "monkey" THEN {} ELSE enTracked
    /\ enPc' = [enPc EXCEPT ![r] = next]
    /\ UNCHANGED <<enMade, enConfig, enRunning, enRet, enCtxDone, enScenarioDone,
                   enComp, enTodo, enActed, enRuns, enTimedOut, registry, cmade>>
    /\ ScenarioFrame

\* Stop() of a component after wg.Wait() (the client: Pool.Stop and wg.Wait());
\* the injector then resumes the nodes it still tracks
StopComponentEnd(r, k, next) ==
    /\ enPc[r] = "wait_" \o k
    /\ enComp[k].loops = {}
    /\ cobj' = IF k = "monkey" THEN ResumeAll(cobj) ELSE cobj
    /\ enTracked' = IF k = "monkey" THEN {} ELSE enTracked
    /\ enPc' = [enPc EXCEPT ![r] = next]
    /\ UNCHANGED <<enMade, enConfig, enRunning, enRet, enCtxDone, enScenarioDone,
                   enComp, enTodo, enActed, enRuns, enTimedOut, registry, cmade>>
    /\ ScenarioFrame

\* teardown: e.cluster.StopAll() copies the nodes of the registry
StopAllBegin(r) ==
    /\ enPc[r] = "stop_all"
    /\ enTodo' = ClusterNodes
    /\ enPc' = [enPc EXCEPT ![r] = "stop_nodes"]
    /\ UNCHANGED <<enMade, enConfig, enRunning, enRet, enCtxDone, enScenarioDone,
                   enComp, enTracked, enActed, enRuns, enTimedOut, cobj, registry,
                   cmade>>
    /\ ScenarioFrame

\* StopAll: go func(n) { n.Stop() }(n)
StopAllNode(r, o) ==
    /\ enPc[r] = "stop_nodes"
    /\ o \in enTodo
    /\ cobj' = [cobj EXCEPT ![o] = NodeStop(@).node]
    /\ enTodo' = enTodo \ {o}
    /\ UNCHANGED <<enMade, enConfig, enRunning, enPc, enRet, enCtxDone, enScenarioDone,
                   enComp, enTracked, enActed, enRuns, enTimedOut, registry, cmade>>
    /\ ScenarioFrame

\* StopAll has returned; the deferred e.running = false; Run returns the
\* Result and a nil error
RunReturn(r) ==
    /\ enPc[r] = "stop_nodes"
    /\ enTodo = {}
    /\ enRunning' = FALSE
    /\ enRet' = [enRet EXCEPT ![r] = [result |-> TRUE, err |-> FALSE]]
    /\ enPc' = [enPc EXCEPT ![r] = "idle"]
    /\ UNCHANGED <<enMade, enConfig, enCtxDone, enScenarioDone, enComp, enTracked,
                   enTodo, enActed, enRuns, enTimedOut, cobj, registry, cmade>>
    /\ ScenarioFrame

\* The caller's context is cancelled while its Run is in progress; scenarioCtx
\* is its child.
ParentCancel(r) ==
    /\ enPc[r] # "idle"
    /\ ~enCtxDone[r]
    /\ enCtxDone' = [enCtxDone EXCEPT ![r] = TRUE]
    /\ enScenarioDone' = (enScenarioDone \/ enPc[r] # "setup")
    /\ UNCHANGED <<enMade, enConfig, enRunning, enPc, enRet, enComp, enTracked, enTodo,
                   enActed, enRuns, enTimedOut, cobj, registry, cmade>>
    /\ ScenarioFrame

\* The configured duration has passed: scenarioCtx times out.
Timeout(r) ==
    /\ enPc[r] \in {"start", "wait"}
    /\ ~enScenarioDone
    /\ enTimedOut' = TRUE
    /\ enScenarioDone' = TRUE
    /\ UNCHANGED <<enMade, enConfig, enRunning, enPc, enRet, enCtxDone, enComp,
                   enTracked, enTodo, enActed, enRuns, cobj, registry, cmade>>
    /\ ScenarioFrame

\* A loop of a component finds its context done and returns.
ComponentLoopExit(k, l) ==
    /\ l \in enComp[k].loops
    /\ LoopCtxDone(k)
    /\ enComp' = [enComp EXCEPT ![k].loops = @ \ {l}]
    /\ UNCHANGED <<enMade, enConfig, enRunning, enPc, enRet, enCtxDone, enScenarioDone,
                   enTracked, enTodo, enActed, enRuns, enTimedOut, cobj, registry,
                   cmade>>
    /\ ScenarioFrame

\* attackLoop: a kill or a suspend attack on a node of the cluster that was
\* Running when it was selected; a suspended node is tracked.
InjectorAttack(o, type) ==
    /\ "attack" \in enComp["monkey"].loops
    /\ o \in ClusterNodes
    /\ LET r == CASE type = AttackKill -> NodeStop(cobj[o])
                  [] type = AttackSuspend -> NodeSuspend(cobj[o]) IN
        /\ cobj' = [cobj EXCEPT ![o] = r.node]
        /\ cobj' # cobj
        /\ enTracked' = IF type = AttackSuspend /\ ~r.err
                        THEN enTracked \cup {ObjId(o)} ELSE enTracked
    /\ enActed' = TRUE
    /\ UNCHANGED <<enMade, enConfig, enRunning, enPc, enRet, enCtxDone, enScenarioDone,
                   enComp, enTodo, enRuns, enTimedOut, registry, cmade>>
    /\ ScenarioFrame

\* resumeLoop: checkAndResume resumes a tracked node and stops tracking it
InjectorResume(o) ==
    /\ "resume" \in enComp["monkey"].loops
    /\ o \in ClusterNodes
    /\ ObjId(o) \in enTracked
    /\ cobj' = [cobj EXCEPT ![o] = NodeResume(@).node]
    /\ enTracked' = enTracked \ {ObjId(o)}
    /\ UNCHANGED <<enMade, enConfig, enRunning, enPc, enRet, enCtxDone, enScenarioDone,
                   enComp, enTodo, enActed, enRuns, enTimedOut, registry, cmade>>
    /\ ScenarioFrame

\* healthCheckLoop: the supervisor restarts a node it found Stopped or resumes a
\* node it found Suspended.
SupervisorRecover(o, op) ==
    /\ "health" \in enComp["recovery"].loops
    /\ o \in ClusterNodes
    /\ cobj' = [cobj EXCEPT ![o] =
                  CASE op = "Start" -> NodeStart(@).node
                    [] op = "Resume" -> NodeResume(@).node]
    /\ cobj' # cobj
    /\ enActed' = TRUE
    /\ UNCHANGED <<enMade, enConfig, enRunning, enPc, enRet, enCtxDone, enScenarioDone,
                   enComp, enTracked, enTodo, enRuns, enTimedOut, registry, cmade>>
    /\ ScenarioFrame

EngineRun(r) ==
    \/ RunReject(r)
    \/ \E done \in BOOLEAN : RunBegin(r, done)
    \/ Setup(r)
    \/ RunScenario(r)
    \/ Wait(r)
    \/ StopComponentBegin(r, "client", "stop_monkey")
    \/ StopComponentEnd(r, "client", "stop_monkey")
    \/ StopComponentBegin(r, "monkey", "stop_recovery")
    \/ StopComponentEnd(r, "monkey", "stop_recovery")
    \/ StopComponentBegin(r, "recovery", "stop_all")
    \/ StopComponentEnd(r, "recovery", "stop_all")
    \/ StopAllBegin(r)
    \/ \E o \in Objs : StopAllNode(r, o)
    \/ RunReturn(r)

\* The steps of a Run that has been admitted.
EngineStep(r) == enPc[r] # "idle" /\ EngineRun(r)

ScenarioNext ==
    \/ \E config \in EngineConfigs : EngineNew(config)
    \/ \E r \in Callers : EngineRun(r)
    \/ \E r \in Callers : ParentCancel(r)
    \/ \E r \in Callers : Timeout(r)
    \/ \E k \in Components, l \in {"requests", "attack", "resume", "health"} :
          ComponentLoopExit(k, l)
    \/ \E o \in Objs, type \in {AttackKill, AttackSuspend} : InjectorAttack(o, type)
    \/ \E o \in Objs : InjectorResume(o)
    \/ \E o \in Objs, op \in {"Start", "Resume"} : SupervisorRecover(o, op)

(***************************************************************************)
(* The locks: Node.mu, Cluster.mu, Metrics.mu, Bus.mu, Monkey.mu and       *)
(* Manager.mu, as the goroutines of a scenario take them.                  *)
(*                                                                         *)
(* Each operation is the sequence of its lock instructions.  A critical    *)
(* section that takes no other lock is one instruction (Locked, RLocked);  *)
(* a section that calls into another component is a Lock ... Unlock pair   *)
(* around the instructions of the calls.                                   *)
(***************************************************************************)
LockNames == {"node", "cluster", "metrics", "bus", "monkey", "supervisor"}

\* A load generator worker, the injector's two loops, the supervisor's loop,
\* and a goroutine calling the cluster and the bus.
LockThreads == {"worker", "attack", "resume", "health", "ops"}

LockIdle == [op |-> "idle", i |-> 0]

\* createJob: n.Get or n.Set, then metrics.RecordSuccess / RecordFailure.
JobLocks == << <<"RLocked", "node">>, <<"Locked", "metrics">> >>

\* attack with attackKill: selectTargets (cluster.Nodes, n.Status), n.Stop,
\* publishEvent, attackByType++, attackCount++.
AttackKillLocks ==
    << <<"RLocked", "cluster">>, <<"RLocked", "node">>, <<"Locked", "node">>,
       <<"RLocked", "bus">>, <<"Locked", "monkey">>, <<"Locked", "monkey">> >>

AttackSuspendLocksNested ==
    << <<"RLocked", "cluster">>, <<"RLocked", "node">>, <<"Lock", "node">>,
       <<"Locked", "monkey">>, <<"Unlock", "node">>, <<"RLocked", "bus">>,
       <<"Locked", "monkey">> >>

\* attack with attackSuspend: selectTargets, n.Suspend, suspendedIDs and
\* attackByType under m.mu, publishEvent, attackCount++.
AttackSuspendLocks ==
    << <<"RLocked", "cluster">>, <<"RLocked", "node">>, <<"Locked", "node">>,
       <<"Locked", "monkey">>, <<"RLocked", "bus">>, <<"Locked", "monkey">> >>

\* attack with attackDelay: selectTargets, n.SetDelay, publishEvent,
\* attackByType++, attackCount++.
AttackDelayLocks ==
    << <<"RLocked", "cluster">>, <<"RLocked", "node">>, <<"Locked", "node">>,
       <<"RLocked", "bus">>, <<"Locked", "monkey">>, <<"Locked", "monkey">> >>

\* checkAndResume: under m.mu, cluster.GetNode, n.Resume and publishEvent.
CheckAndResumeLocks ==
    << <<"Lock", "monkey">>, <<"RLocked", "cluster">>, <<"Locked", "node">>,
       <<"RLocked", "bus">>, <<"Unlock", "monkey">> >>

\* resumeAll: under m.mu, cluster.GetNode and n.Resume.
ResumeAllLocks ==
    << <<"Lock", "monkey">>, <<"RLocked", "cluster">>, <<"Locked", "node">>,
       <<"Unlock", "monkey">> >>

\* checkAndRecover on a Running node: cluster.Nodes, n.Status, nodeStates under
\* m.mu; handleRunningNode: under m.mu, n.Delay and n.SetDelay; publishEvent
\* after the Unlock.
CheckRunningLocks ==
    << <<"RLocked", "cluster">>, <<"RLocked", "node">>, <<"Locked", "supervisor">>,
       <<"Lock", "supervisor">>, <<"RLocked", "node">>, <<"Locked", "node">>,
       <<"Unlock", "supervisor">>, <<"RLocked", "bus">> >>

\* checkAndRecover on a Stopped or Suspended node: cluster.Nodes, n.Status,
\* nodeStates under m.mu; handleStoppedNode / handleSuspendedNode: the counters
\* under m.mu, publishEvent, n.Start or n.Resume, the counters under m.mu,
\* publishEvent.
CheckDownLocks ==
    << <<"RLocked", "cluster">>, <<"RLocked", "node">>, <<"Locked", "supervisor">>,
       <<"Locked", "supervisor">>, <<"RLocked", "bus">>, <<"Locked", "node">>,
       <<"Locked", "supervisor">>, <<"RLocked", "bus">> >>

\* StartAll: the nodes are copied under c.mu, then n.Start.
StartAllLocks == << <<"Locked", "cluster">>, <<"Locked", "node">> >>

\* StopAll: the nodes are copied under c.mu (read), then n.Stop.
StopAllLocks == << <<"RLocked", "cluster">>, <<"Locked", "node">> >>

\* RemoveNode: under c.mu, n.Status and n.Stop.
RemoveNodeLocks ==
    << <<"Lock", "cluster">>, <<"RLocked", "node">>, <<"Locked", "node">>,
       <<"Unlock", "cluster">> >>

\* RunningCount / StoppedCount: under c.mu (read), n.Status.
RunningCountLocks ==
    << <<"RLock", "cluster">>, <<"RLocked", "node">>, <<"RUnlock", "cluster">> >>

\* Bus.Subscribe / Unsubscribe / Close: one critical section of b.mu.
SubscribeLocks == << <<"Locked", "bus">> >>

LockOps == {"Job", "attackKill", "attackSuspend", "attackDelay", "checkAndResume",
            "resumeAll", "checkRunning", "checkDown", "StartAll", "StopAll",
            "RemoveNode", "RunningCount", "Subscribe"}

LockScript(op) ==
    CASE op = "Job"            -> JobLocks
      [] op = "attackKill"     -> AttackKillLocks
      [] op = "attackSuspend"  -> AttackSuspendLocks
      [] op = "attackDelay"    -> AttackDelayLocks
      [] op = "checkAndResume" -> CheckAndResumeLocks
      [] op = "resumeAll"      -> ResumeAllLocks
      [] op = "checkRunning"   -> CheckRunningLocks
      [] op = "checkDown"      -> CheckDownLocks
      [] op = "StartAll"       -> StartAllLocks
      [] op = "StopAll"        -> StopAllLocks
      [] op = "RemoveNode"     -> RemoveNodeLocks
      [] op = "RunningCount"   -> RunningCountLocks
      [] op = "Subscribe"      -> SubscribeLocks

\* The operations each goroutine runs.
OpsOf(t) ==
    CASE t = "worker" -> {"Job"}
      [] t = "attack" -> {"attackKill", "attackSuspend", "attackDelay"}
      [] t = "resume" -> {"checkAndResume", "resumeAll"}
      [] t = "health" -> {"checkRunning", "checkDown"}
      [] t = "ops"    -> {"StartAll", "StopAll", "RemoveNode", "RunningCount", "Subscribe"}

LockInit ==
    /\ lkPc = [t \in LockThreads |-> LockIdle]
    /\ lkHeld = [t \in LockThreads |-> {}]
    /\ lkCount = [t \in LockThreads |-> 0]

LockBusy(t) == lkPc[t].op # "idle"

\* The instruction the goroutine is at.
NextInstr(t) == LockScript(lkPc[t].op)[lkPc[t].i]

\* The goroutine holds lock l in the given mode ("Lock" or "RLock").
Holds(t, l, mode) == <<l, mode>> \in lkHeld[t]

LocksHeld(t) == {h[1] : h \in lkHeld[t]}

\* sync.RWMutex: Lock waits until nobody holds the mutex, RLock until no writer
\* holds it; a goroutine that asks again for a mutex it holds for writing
\* waits for itself.
CanTake(t, ins) ==
    CASE ins[1] \in {"Lock", "Locked"} ->
             \A u \in LockThreads : ins[2] \notin LocksHeld(u)
      [] ins[1] \in {"RLock", "RLocked"} ->
             \A u \in LockThreads : ~Holds(u, ins[2], "Lock")
      [] OTHER -> TRUE

\* The locks held after the instruction, of those held before it.
HeldAfter(held, ins) ==
    CASE ins[1] \in {"Lock", "RLock"} -> held \cup {<<ins[2], ins[1]>>}
      [] ins[1] = "Unlock"  -> held \ {<<ins[2], "Lock">>}
      [] ins[1] = "RUnlock" -> held \ {<<ins[2], "RLock">>}
      [] OTHER -> held

\* What the lock steps leave unchanged.
LockFrame == UNCHANGED <<nodeVars, poolVars, metricsVars, busVars, clusterVars, chaosVars,
                         recoveryVars, clientVars, scenarioVars>>

\* A goroutine begins one of its operations.
LockBegin(t, op) ==
    /\ ~LockBusy(t)
    /\ op \in OpsOf(t)
    /\ lkCount[t] < MaxLockOps
    /\ lkCount' = [lkCount EXCEPT ![t] = @ + 1]
    /\ lkPc' = [lkPc EXCEPT ![t] = [op |-> op, i |-> 1]]
    /\ UNCHANGED lkHeld
    /\ LockFrame

\* A goroutine executes the instruction it is at, once the mutex lets it.
LockStep(t) ==
    /\ LockBusy(t)
    /\ CanTake(t, NextInstr(t))
    /\ lkPc' = [lkPc EXCEPT ![t] =
                  IF lkPc[t].i = Len(LockScript(lkPc[t].op))
                  THEN LockIdle ELSE [@ EXCEPT !.i = @ + 1]]
    /\ lkHeld' = [lkHeld EXCEPT ![t] = HeldAfter(@, NextInstr(t))]
    /\ UNCHANGED lkCount
    /\ LockFrame

LockNext ==
    \/ \E t \in LockThreads, op \in LockOps : LockBegin(t, op)
    \/ \E t \in LockThreads : LockStep(t)

\* The operations that nest locks or contend with one that does: the workers'
\* jobs, the injector's attacks and resumes, the supervisor's check of a
\* Running node, and the cluster operations.  attackDelay takes the locks of
\* attackKill, and the supervisor's handling of a Stopped or Suspended node
\* holds no lock across a call.
NestingOps == LockOps \ {"attackDelay", "checkDown", "Subscribe"}

LockNestingNext ==
    \/ \E t \in LockThreads, op \in NestingOps : LockBegin(t, op)
    \/ \E t \in LockThreads : LockStep(t)

Init ==
    /\ NodeInit
    /\ PoolInit
    /\ MetricsInit
    /\ BusInit
    /\ ClusterInit
    /\ ChaosInit
    /\ RecoveryInit
    /\ ClientInit
    /\ ScenarioInit
    /\ LockInit

SpecNode == Init /\ [][NodeNext]_vars

SpecPool == Init /\ [][PoolNext]_vars

\* The Go scheduler runs every worker goroutine that can take a step, and a job
\* that a worker has started returns.
SpecPoolFair ==
    /\ Init
    /\ [][PoolNext]_vars
    /\ \A w \in WorkerIds : WF_vars(WorkerSelect(w)) /\ WF_vars(WorkerRun(w))

\* A goroutine that is inside Submit, SubmitWait or Stop takes its next step
\* when that step is possible.
CallStep(t) ==
    \/ \E kind \in {"Submit", "SubmitWait"} :
          SubmitCheck(t, kind) \/ SubmitEnter(t, kind) \/ SubmitSelect(t, kind)
    \/ StopFlag(t) \/ StopCancel(t) \/ StopWait(t) \/ StopClose(t) \/ StopEnd(t)

\* The Go scheduler runs every goroutine that can take a step: the workers and
\* the callers inside a call on the pool.
SpecPoolLive ==
    /\ Init
    /\ [][PoolNext]_vars
    /\ \A w \in WorkerIds : WF_vars(WorkerSelect(w)) /\ WF_vars(WorkerRun(w))
    /\ \A t \in Threads : WF_vars(CallStep(t))

SpecMetrics == Init /\ [][MetricsNext]_vars

SpecBus == Init /\ [][BusNext]_vars

\* A goroutine inside Publish is scheduled until the call returns; nothing is
\* assumed of the subscribers.
SpecBusFair ==
    /\ Init
    /\ [][BusNext]_vars
    /\ \A ch \in Channels : WF_vars(PublishSend(ch))

SpecCluster == Init /\ [][ClusterNext]_vars

SpecChaos == Init /\ [][ChaosNext]_vars

SpecRecovery == Init /\ [][RecoveryNext]_vars

\* The health check loop keeps ticking and a check that has begun goes on.
SpecRecoveryLive == Init /\ [][RecoveryLiveNext]_vars /\ WF_vars(HealthCheck)

SpecClient == Init /\ [][ClientNext]_vars

\* The goroutines of the load generator and its caller keep running: the
\* producer, the workers, and the steps of a call that has begun.
SpecClientLive ==
    /\ SpecClient
    /\ WF_vars(ProducerNodes) /\ WF_vars(ProducerCtx) /\ WF_vars(ProducerLimit)
    /\ WF_vars(ProducerSubmit) /\ WF_vars(ProducerCheck) /\ WF_vars(ProducerSend)
    /\ \A w \in ClientWorkers :
          WF_vars(ClientWorkerSelect(w)) /\ WF_vars(JobCall(w)) /\ WF_vars(JobRecord(w))
    /\ WF_vars(PoolStopEnd) /\ WF_vars(ClientStopEnd) /\ WF_vars(RunRequestsStop)

SpecScenario == Init /\ [][ScenarioNext]_vars

\* A Run that has been admitted keeps running, and so do the loops of the
\* components; the duration need not pass and no context need be cancelled.
SpecScenarioLive ==
    /\ SpecScenario
    /\ WF_vars(\E r \in Callers : EngineStep(r))
    /\ WF_vars(\E k \in Components : \E l \in LoopsOf(k) : ComponentLoopExit(k, l))

SpecLocks == Init /\ [][LockNext]_vars

\* A goroutine that can execute its instruction does so: the goroutines are
\* scheduled and a free mutex is granted.
SpecLocksFair ==
    Init /\ [][LockNestingNext]_vars /\ WF_vars(\E t \in LockThreads : LockStep(t))

Spec == SpecNode

(***************************************************************************)
(* Properties: the node                                                    *)
(***************************************************************************)
LifecycleOps == {"Start", "Stop", "Suspend", "Resume"}

\* The transition table of the node's lifecycle: the state an operation leads
\* to, or "fail".
Table(status, op) ==
    CASE op = "Start"   -> IF status = StatusStopped THEN StatusRunning ELSE "fail"
      [] op = "Stop"    -> IF status \in {StatusRunning, StatusSuspended}
                           THEN StatusStopped ELSE "fail"
      [] op = "Suspend" -> IF status = StatusRunning THEN StatusSuspended ELSE "fail"
      [] op = "Resume"  -> IF status = StatusSuspended THEN StatusRunning ELSE "fail"

\* The value the history says a key holds: that of its latest successful Set,
\* unless a successful Delete of the key came later.
RECURSIVE LastWrite(_, _)
LastWrite(h, k) ==
    IF h = <<>> THEN NoValue
    ELSE IF h[Len(h)].key = k THEN h[Len(h)].val
    ELSE LastWrite(SubSeq(h, 1, Len(h) - 1), k)

\* C1: a new node is Stopped, and Start, Stop, Suspend and Resume succeed exactly
\* for the transitions of the table (Start only from Stopped, Stop from Running or
\* Suspended, Suspend from Running, Resume from Suspended) and fail, leaving the
\* status alone, for every other pair.
C1_TransitionTable ==
    [][nodeRet'.op \in LifecycleOps =>
        LET to == Table(node.status, nodeRet'.op) IN
        /\ nodeRet'.ok = (to # "fail")
        /\ node'.status = IF to = "fail" THEN node.status ELSE to]_vars

\* C2: on a Running node Get(k) returns (v, true) for the value v of the latest
\* successful Set(k, v) that no successful Delete(k) followed, and (nil, false)
\* when k was never set or was deleted last.
C2_GetReturnsLastWrite ==
    (nodeRet.op = "Get" /\ node.status = StatusRunning) =>
        /\ nodeRet.val = LastWrite(nodeHist, nodeRet.key)
        /\ nodeRet.ok = (LastWrite(nodeHist, nodeRet.key) # NoValue)

\* C2: a Get that returns the value of a Set made after a Delete of an earlier Set.
C2_Witness ==
    /\ nodeRet = Ret("Get", "k1", "v2", TRUE)
    /\ nodeHist = << [op |-> "Set", key |-> "k1", val |-> "v1"],
                     [op |-> "Delete", key |-> "k1", val |-> NoValue],
                     [op |-> "Set", key |-> "k1", val |-> "v2"] >>

\* C3: a lifecycle call the table disallows, and a Set or Delete on a node that is
\* not Running, return an error and leave status, store and delay unchanged; a Get
\* on a node that is not Running returns (nil, false); the store changes only
\* while the node is Running.
C3_FailedCallsChangeNothing ==
    [][/\ (nodeRet'.op \in LifecycleOps /\ Table(node.status, nodeRet'.op) = "fail")
            => (~nodeRet'.ok /\ node' = node)
       /\ (nodeRet'.op \in {"Set", "Delete"} /\ node.status # StatusRunning)
            => (~nodeRet'.ok /\ node' = node)
       /\ (nodeRet'.op = "Get" /\ node.status # StatusRunning)
            => (nodeRet'.val = NoValue /\ ~nodeRet'.ok)
       /\ (node'.data # node.data) => node.status = StatusRunning]_vars

\* C4: Start, Stop, Suspend, Resume and SetDelay leave the store as it is, and a
\* Get on the Running node after Suspend then Resume, or after Stop then Start,
\* returns what was last written before them.
C4_LifecycleKeepsStore ==
    /\ [][nodeRet'.op \in LifecycleOps \cup {"SetDelay"} => node'.data = node.data]_vars
    /\ [](( /\ nodeRet.op = "Get"
            /\ node.status = StatusRunning
            /\ nodeLife \in {<<"Suspend", "Resume">>, <<"Stop", "Start">>})
          => nodeRet.val = LastWrite(nodeHist, nodeRet.key))

\* C4: a key set before a kill (Stop, then Start) is read back with its value.
C4_Witness ==
    /\ nodeRet = Ret("Get", "k1", "v1", TRUE)
    /\ nodeLife = <<"Stop", "Start">>
    /\ node.status = StatusRunning

(***************************************************************************)
(* Properties: the worker pool                                             *)
(***************************************************************************)
SubmitOps == {"Submit", "SubmitWait"}

\* The pool is started and neither being stopped nor cancelled.
PoolRunning == Alive /\ started /\ ~stopping /\ ctx \notin ctxDone

PoolState == <<started, stopping, ctx, ctxDone, jobs, workers>>

\* C5: once a Stop has returned, every later Submit and SubmitWait returns false
\* (so it neither returns true nor panics) and its job is never run, also after a
\* later Start.
C5_StoppedIsTerminal ==
    /\ LateJobs \cap accepted = {}
    /\ \A j \in LateJobs : execCount[j] = 0
    /\ ~(panicked.op \in SubmitOps /\ panicked.job \in LateJobs)

\* C6: a Submit or SubmitWait call that overlaps a Stop call never panics in its
\* caller: it returns true or false.
C6_SubmitNeverPanics ==
    \A t \in Threads :
        (overlap[t] /\ panicked.job = tjob[t]) => panicked.op \notin SubmitOps

\* C7: no job is run more than once, and every job whose Submit or SubmitWait
\* returned true is eventually run by a worker unless the pool is stopped or its
\* context cancelled.
C7_AcceptedJobsRunOnce ==
    /\ [](\A j \in JobIds : execCount[j] <= 1)
    /\ \A j \in JobIds :
          (j \in accepted) ~> (execCount[j] >= 1 \/ ~PoolRunning)

\* C7: two jobs, submitted by two goroutines, have both been accepted and run
\* once by the running pool.
C7_Witness ==
    /\ PoolRunning
    /\ {1, 2} \subseteq accepted
    /\ execCount[1] = 1
    /\ execCount[2] = 1
    /\ tjob["t1"] # tjob["t2"] /\ tjob["t1"] > 0 /\ tjob["t2"] > 0

\* C8: a Start on a started pool and a Stop on a pool that is not started change
\* nothing of the pool (no worker spawned, nothing cancelled or closed), and there
\* are never more than NumWorkers live workers.
C8_DoubleStartStopNoOps ==
    /\ [][/\ ((\E parentDone \in BOOLEAN : PoolStart(parentDone)) /\ started)
               => UNCHANGED PoolState
          /\ \A t \in Threads :
               (StopBegin(t) /\ ~started) => (UNCHANGED PoolState /\ pc'[t] = "idle")]_vars
    /\ [](Cardinality(LiveWorkers) <= NumWorkers)

\* C8: a second Stop has returned on a pool that a first Stop had stopped.
C8_Witness ==
    /\ poolRet = [op |-> "Stop", res |-> "noop"]
    /\ ~started
    /\ jobs.closed
    /\ ctx = 1

(***************************************************************************)
(* Properties: the metrics                                                 *)
(***************************************************************************)
SnapshotTaken == spc = "idle"

\* C9: at every moment TotalRequests = SuccessRequests + FailedRequests, for the
\* counters themselves and for the three values one Snapshot returns.
C9_TotalIsSum ==
    /\ totalRequests = successRequests + failedRequests
    /\ SnapshotTaken =>
          snap.TotalRequests = snap.SuccessRequests + snap.FailedRequests

\* C9, amended: TotalRequests = SuccessRequests + FailedRequests + the number of
\* Record calls that have added to the total and not yet to their own counter (so
\* the sum is exact whenever no Record call is in progress), and the three values
\* of a Snapshot add up when no Record call was in progress while it read them.
C9_TotalIsSumPlusInFlight ==
    /\ totalRequests = successRequests + failedRequests + Cardinality(InFlight)
    /\ (SnapshotTaken /\ snapQuiet) =>
          snap.TotalRequests = snap.SuccessRequests + snap.FailedRequests

\* C9: a Snapshot taken after one success and one failure were recorded, with no
\* Record call in progress.
C9_Witness ==
    /\ SnapshotTaken
    /\ snapQuiet
    /\ snap = [TotalRequests |-> 2, SuccessRequests |-> 1, FailedRequests |-> 1]

\* C10: Reset zeroes the window count, sets the window anchor to the current time
\* and empties the reservoir, and leaves the three totals and the latency sum
\* unchanged; no step ever decreases a total.
C10_ResetKeepsTotals ==
    [][/\ Reset =>
            /\ windowRequests' = 0
            /\ lastResetTime' = now
            /\ latencies' = <<>>
            /\ UNCHANGED <<totalRequests, successRequests, failedRequests,
                           totalLatencyNs>>
       /\ totalRequests' >= totalRequests
       /\ successRequests' >= successRequests
       /\ failedRequests' >= failedRequests]_vars

\* C10: two successes were recorded and sampled, time passed, and a Reset cleared
\* the window and the reservoir and kept the totals.
C10_Witness ==
    /\ Recording = {}
    /\ totalRequests = 2
    /\ successRequests = 2
    /\ totalLatencyNs = 3
    /\ windowRequests = 0
    /\ latencies = <<>>
    /\ lastResetTime = 1

(***************************************************************************)
(* Properties: the event bus                                               *)
(***************************************************************************)

\* The events published from the (n+1)st Publish to the mth, in order.
Published(n, m) == [i \in 1..(m - n) |-> n + i]

\* The Publish calls that have reached subscriber ch.
Offered(ch) == pubCount - subAt[ch] - (IF ch \in pubTodo THEN 1 ELSE 0)

\* What subscriber ch has been delivered: received or still buffered.
Delivered(ch) == got[ch] \o chans[ch].buf

Increasing(q) == \A i, j \in 1..Len(q) : i < j => q[i] < q[j]

\* C11: a Publish in progress completes whatever the subscribers do; each
\* subscriber visited gets the event appended when its buffer has room and keeps
\* its buffer when it is full; a subscriber that has received nothing holds the
\* first min(N, BufferSize) of the N events published to it.
C11_PublishNeverBlocks ==
    /\ (pubEvent # 0) ~> (pubEvent = 0)
    /\ [][\A ch \in Channels : (PublishSend(ch) /\ ~chans[ch].closed) =>
            chans'[ch].buf = IF Len(chans[ch].buf) < BufferSize
                             THEN Append(chans[ch].buf, pubEvent)
                             ELSE chans[ch].buf]_vars
    /\ [](\A ch \in subscribers :
            got[ch] = <<>> =>
                chans[ch].buf = Published(subAt[ch],
                                          subAt[ch] + Min(Offered(ch), BufferSize)))

\* C11: a burst of three publishes to an idle subscriber has returned; the
\* subscriber holds the first two events, the third was dropped.
C11_Witness ==
    /\ pubEvent = 0
    /\ pubCount = 3
    /\ 1 \in subscribers
    /\ subAt[1] = 0
    /\ got[1] = <<>>
    /\ chans[1].buf = <<1, 2>>
    /\ dropped[1]

\* C12: what a subscriber has been delivered is an in-order subsequence of the
\* events published after its Subscribe, without duplicates, and is all of them
\* as long as no Publish found its buffer full.
C12_DeliveryInOrder ==
    \A ch \in Made :
        /\ Increasing(Delivered(ch))
        /\ \A i \in 1..Len(Delivered(ch)) :
              subAt[ch] < Delivered(ch)[i] /\ Delivered(ch)[i] <= pubCount
        /\ (ch \in subscribers /\ ~dropped[ch]) =>
              Delivered(ch) = Published(subAt[ch], subAt[ch] + Offered(ch))

\* C12: a subscriber that subscribed after the first Publish and received while
\* the publisher went on has been delivered the two later events, in order; the
\* earlier subscriber lost one to a full buffer.
C12_Witness ==
    /\ pubEvent = 0
    /\ pubCount = 3
    /\ subscribers = {1, 2}
    /\ subAt[2] = 1
    /\ got[2] = <<2>>
    /\ chans[2].buf = <<3>>
    /\ ~dropped[2]
    /\ dropped[1]
    /\ Delivered(1) = <<1, 2>>

\* C13: Close leaves no subscriber and closes every subscribed channel, keeping
\* what is buffered; Unsubscribe of a subscribed channel closes and removes it and
\* lowers SubscriberCount by one; a channel that is no longer subscribed is
\* closed and is never sent to again; a receiver sees end-of-stream only from a
\* closed channel it has drained; no call on the bus panics.
C13_CloseEndsStreams ==
    /\ [][/\ BusClose =>
               /\ busRet'.count = 0
               /\ subscribers' = {}
               /\ \A ch \in subscribers :
                     chans'[ch].closed /\ chans'[ch].buf = chans[ch].buf
          /\ \A ch \in Channels :
               (Unsubscribe(ch) /\ ch \in subscribers) =>
                   /\ chans'[ch].closed
                   /\ chans'[ch].buf = chans[ch].buf
                   /\ subscribers' = subscribers \ {ch}
                   /\ busRet'.count = Cardinality(subscribers) - 1
          /\ \A ch \in Channels :
               chans[ch].closed => Len(chans'[ch].buf) <= Len(chans[ch].buf)
          /\ \A ch \in Channels :
               (eos'[ch] /\ ~eos[ch]) =>
                   (chans[ch].closed /\ chans[ch].buf = <<>>)]_vars
    /\ [](\A ch \in Made : ch \notin subscribers => chans[ch].closed)
    /\ [](~busPanicked)

\* C13: Close has closed two subscribed channels; the subscriber of the first has
\* drained the event buffered in it and then seen end-of-stream, and a Publish
\* made after the Close has returned.
C13_Witness ==
    /\ busRet = [op |-> "Close", ch |-> 0, count |-> 0]
    /\ subscribers = {}
    /\ chans[1].closed /\ chans[2].closed
    /\ got[1] = <<1>>
    /\ eos[1]
    /\ chans[2].buf = <<1>>
    /\ pubCount = 2
    /\ pubEvent = 0

(***************************************************************************)
(* Properties: the cluster                                                 *)
(***************************************************************************)
\* C14: AddNode of a node whose identity is registered returns an error and
\* leaves the registry (and so the registered node and Size) as they are;
\* RemoveNode of an identity that is not registered returns an error and changes
\* nothing; every registered node is registered under its own identity, so no two
\* registered nodes share one.
C14_IdentitiesStayUnique ==
    /\ [][/\ \A o \in Objs :
                (AddNode(o) /\ registry[ObjId(o)] # NoObj) =>
                    /\ clusterRet'.err
                    /\ registry' = registry
                    /\ ClusterSize' = ClusterSize
          /\ \A id \in NodeIds :
                (RemoveNode(id) /\ registry[id] = NoObj) =>
                    /\ clusterRet'.err
                    /\ UNCHANGED <<registry, cobj>>]_vars
    /\ [](/\ \A i \in Registered : ObjId(registry[i]) = i
          /\ Cardinality(ClusterNodes) = ClusterSize)

\* C14: AddNode of a second node named node-1 has failed; the first node named
\* node-1 is still the one registered.
C14_Witness ==
    /\ clusterRet = [op |-> "AddNode", err |-> TRUE, count |-> 0]
    /\ registry["node-1"] = <<"node-1", 1>>
    /\ <<"node-1", 2>> \in cmade
    /\ ClusterSize = 2

\* C15: StartAll starts one attempt for every registered node and returns when
\* all have finished; it returns an error exactly when some Start failed, with the
\* number of failed starts; when all nodes were Stopped and nobody else acts, it
\* returns nil and RunningCount = Size.
C15_StartAllCountsFailures ==
    [][/\ StartAllBegin => saTodo' = ClusterNodes
       /\ StartAllEnd =>
            /\ saTodo = {}
            /\ clusterRet'.err = (saFailed # {})
            /\ clusterRet'.count = Cardinality(saFailed)
            /\ (saQuiet /\ saStopped) =>
                  /\ ~clusterRet'.err
                  /\ CountStatus(StatusRunning)' = ClusterSize']_vars

\* C15: StartAll on two nodes, one of them Running already, has returned an error
\* that counts one failed start.
C15_Witness ==
    /\ clusterRet = [op |-> "StartAll", err |-> TRUE, count |-> 1]
    /\ saPc = "idle"
    /\ ClusterSize = 2
    /\ CountStatus(StatusRunning) = 2

(***************************************************************************)
(* Properties: the chaos injector                                          *)
(***************************************************************************)
\* The injector is stopped: no Start since the latest Stop returned (or ever).
MonkeyStopped == ~mkRunning /\ mkPc = "idle"

SumByType ==
    attackByType[AttackKill] + attackByType[AttackSuspend] + attackByType[AttackDelay]

C17_TotalIsSumByType ==
    atkType = "none" => attackCount = SumByType

(***************************************************************************)
(* Properties: the supervisor                                              *)
(***************************************************************************)
\* No health-check tick is in progress.
BetweenTicks == rcPc = "idle" /\ rcTodo = {}

\* handleStoppedNode is about to run for a node whose stop was detected on an
\* earlier tick and whose RecoveryDelay has passed.
EligibleTick ==
    /\ rcPc = "handle"
    /\ rcStatus = StatusStopped
    /\ rmConfig.AutoRestart
    /\ nodeStates[ObjId(rcCur)].failed
    /\ rcNow - nodeStates[ObjId(rcCur)].FailedAt >= rmConfig.RecoveryDelay

\* C18: TotalRecoveries >= SuccessRecoveries + FailedRecoveries at every
\* moment, with equality whenever no health-check tick is in progress.
C18_TotalCoversOutcomes ==
    /\ rmStats.TotalRecoveries >= rmStats.SuccessRecoveries + rmStats.FailedRecoveries
    /\ BetweenTicks =>
         rmStats.TotalRecoveries = rmStats.SuccessRecoveries + rmStats.FailedRecoveries

\* C19: with MaxRetries = M > 0 the supervisor has called Node.Start on a node
\* at most M times since it last observed that node Running; with MaxRetries = 0
\* and AutoRestart every eligible tick makes an attempt, however many were made.
C19_RetryBudget ==
    /\ [](rmConfig.MaxRetries > 0 =>
            \A i \in NodeIds : rmAttempts[i] <= rmConfig.MaxRetries)
    /\ [][(HandleStoppedNode /\ EligibleTick /\ rmConfig.MaxRetries = 0)
            => rcPc' = "start"]_vars

\* C19: the budget is used (MaxRetries attempts since the node was last observed
\* Running) and an eligible tick has come to the node, Stopped again.
C19_Witness ==
    /\ EligibleTick
    /\ rmConfig.MaxRetries = MaxRetriesBound
    /\ rmAttempts[ObjId(rcCur)] = MaxRetriesBound
    /\ cobj[rcCur].status = StatusStopped

\* C20: with AutoRestart = false no step of the supervisor changes a Stopped
\* node, with AutoResume = false none changes a Suspended node, and the health
\* check of a node observed so changes no node, no counter and publishes nothing.
C20_DisabledRecoveryDoesNothing ==
    /\ [][(\/ HandleStoppedNode /\ ~rmConfig.AutoRestart
           \/ HandleSuspendedNode /\ ~rmConfig.AutoResume)
            => UNCHANGED <<cobj, rmStats, rmPublished, rmAttempts>>
               /\ \A i \in NodeIds : nodeStates'[i].RetryCount = nodeStates[i].RetryCount]_vars
    /\ [][HealthCheck =>
            \A o \in ClusterNodes :
                /\ (~rmConfig.AutoRestart /\ cobj[o].status = StatusStopped)
                      => cobj'[o].status = StatusStopped
                /\ (~rmConfig.AutoResume /\ cobj[o].status = StatusSuspended)
                      => cobj'[o].status = StatusSuspended]_vars

\* The injected delay of every node is what it was.
DelaysUnchanged == \A o \in Objs : cobj'[o].delay = cobj[o].delay

\* C21: with ClearDelay, the health check of a node observed Running whose
\* delay is > 0 leaves that delay 0; the health check of a node observed
\* Stopped or Suspended changes no delay; without ClearDelay no step of the
\* supervisor changes a delay.
C21_ClearDelay ==
    /\ [][(HandleRunningNode /\ rmConfig.ClearDelay /\ cobj[rcCur].delay > 0)
            => cobj'[rcCur].delay = 0]_vars
    /\ [][(HealthCheck /\ rcStatus # StatusRunning) => DelaysUnchanged]_vars
    /\ [][(HealthCheck /\ ~rmConfig.ClearDelay) => DelaysUnchanged]_vars

\* C21: with ClearDelay, the health check has observed Running a node that has
\* an injected delay, and has reached handleRunningNode.
C21_Witness ==
    /\ rcPc = "handle"
    /\ rcStatus = StatusRunning
    /\ rmConfig.ClearDelay
    /\ cobj[rcCur].delay > 0
    /\ cobj[rcCur].status = StatusRunning

(***************************************************************************)
(* Properties: the worker pool, termination and the order of Stop          *)
(***************************************************************************)
\* The caller is in the second select of Submit / SubmitWait.
InSelect(t) == pc[t] \in {"Submit_select", "SubmitWait_select"}

\* Stop has been called and has set the stopping flag.
StopCalled == \E u \in Threads : pc[u] \in {"stop_cancel", "stop_wait", "stop_close", "stop_end"}

\* C27: a Submit or SubmitWait waiting in its select returns once the queue has
\* room for good, the context it waits on is cancelled, or Stop has been called;
\* and every call of Stop returns.
C27_BlockedCallsReturn ==
    /\ \A t \in Threads :
          (InSelect(t) /\ (tctx[t] \in ctxDone \/ StopCalled)) ~> ~InSelect(t)
    /\ \A t \in Threads :
          [](InSelect(t) /\ Len(jobs.buf) < QueueCap) ~> ~InSelect(t)
    /\ \A t \in Threads : InStop(t) ~> (pc[t] = "idle")

\* The workers that are running a job they pulled.
BusyWorkers == {w \in WorkerIds : workers[w].st = "run"}

\* C28: a caller of Stop goes through set-the-flag, cancel, wait, close, in this
\* order; the wait ends only when every worker has exited; the queue is closed
\* only by Stop, after the context was cancelled and with no worker alive; and
\* when Stop returns no job is executing.
C28_StopOrder ==
    /\ [][\A t \in Threads :
            /\ StopFlag(t) => (stopping' /\ pc'[t] = "stop_cancel")
            /\ StopCancel(t) => (ctx \in ctxDone' /\ pc'[t] = "stop_wait")
            /\ StopWait(t) => (LiveWorkers = {} /\ jobs' = jobs /\ pc'[t] = "stop_close")
            /\ (pc'[t] = "stop_close" /\ pc[t] # "stop_close") => pc[t] = "stop_wait"
            /\ (pc'[t] = "stop_wait" /\ pc[t] # "stop_wait") => pc[t] = "stop_cancel"
            /\ (pc'[t] = "stop_cancel" /\ pc[t] # "stop_cancel") => pc[t] = "stop_flag"]_vars
    /\ [][(jobs'.closed /\ ~jobs.closed)
            => /\ \E t \in Threads : StopClose(t)
               /\ LiveWorkers = {}
               /\ ctx \in ctxDone]_vars
    /\ [][\A t \in Threads :
            (InStop(t) /\ pc'[t] = "idle") => (BusyWorkers = {} /\ LiveWorkers = {})]_vars

\* C28: Stop has returned on a pool whose worker had run a job; the queue is
\* closed and no worker is left.
C28_Witness ==
    /\ poolRet = [op |-> "Stop", res |-> "stopped"]
    /\ jobs.closed
    /\ ~started
    /\ ctx = 1
    /\ execCount[1] = 1
    /\ LiveWorkers = {}

(***************************************************************************)
(* Properties: the injector's ticks and events                             *)
(***************************************************************************)
\* The elements of a sequence.
Range(q) == {q[i] : i \in 1..Len(q)}

\* The targets of the attack in progress: attacked already, or still to attack.
TickTargets == mkApplied \cup Range(atkTargets)

\* C29: the targets a tick selects are distinct nodes that selectTargets found
\* Running, at most min(TargetCount, number of Running nodes) of them; one attack
\* type is applied to all of them; and a tick that finds no Running node changes
\* no node, no counter and publishes nothing.
C29_TickTargets ==
    /\ [][AttackBegin =>
            /\ Range(atkTargets') \subseteq RunningNodes
            /\ Len(atkTargets') <= Min(mkConfig.TargetCount, Cardinality(RunningNodes))
            /\ Cardinality(Range(atkTargets')) = Len(atkTargets')]_vars
    /\ [](atkType # "none" =>
            /\ TickTargets \subseteq atkSnap
            /\ Cardinality(TickTargets) <= Min(mkConfig.TargetCount, Cardinality(atkSnap))
            /\ \A e \in mkPublished : e[2] = atkType)
    /\ [][(atkType # "none" /\ atkType' # "none") => atkType' = atkType]_vars
    /\ [][(RunningNodes = {} /\ (AttackBegin \/ AttackSkip))
            => UNCHANGED <<cobj, attackCount, attackByType, suspendedIDs, mkPublished,
                           atkTargets, atkType>>]_vars

\* C29: TargetCount is 2 and one of the two nodes was Running when the tick
\* selected its targets; the attack has been applied to that node alone.
C29_Witness ==
    /\ atkType # "none"
    /\ mkConfig.TargetCount = 2
    /\ Cardinality(ClusterNodes) = 2
    /\ Cardinality(atkSnap) = 1
    /\ mkApplied = atkSnap
    /\ atkTargets = <<>>

\* C30: every ChaosAttack event published in a tick names a node on which the
\* tick's Stop, Suspend or SetDelay has returned without error, and the step
\* that publishes it comes after that call; a failed Stop or Suspend publishes
\* nothing.
C30_EventAfterMutation ==
    /\ [](\A e \in mkPublished :
            \E o \in mkApplied : ObjId(o) = e[1] /\ e[2] = atkType)
    /\ [][mkPublished' # mkPublished =>
            \/ mkPublished' = {}
            \/ /\ PublishAttack
               /\ atkCur \in mkApplied
               /\ mkPublished' = mkPublished \cup {<<ObjId(atkCur), atkType>>}]_vars
    /\ [][\A o \in Objs :
            (ExecuteAttack(o) /\ cobj'[o] = cobj[o] /\ atkType # AttackDelay)
               => (mkPublished' = mkPublished /\ atkCur' = NoObj)]_vars

\* C30: a kill attack has stopped a node and its event has been published; the
\* node is Stopped.
C30_Witness ==
    /\ atkType = AttackKill
    /\ \E o \in mkApplied :
          /\ <<ObjId(o), AttackKill>> \in mkPublished
          /\ cobj[o].status = StatusStopped

(***************************************************************************)
(* Properties of the load generator                                        *)
(***************************************************************************)
\* C22: a request executed against a node that is not Running, a read or a
\* write, is recorded as a failure, and a request is recorded as a success only
\* when the node served it.
C22_NotRunningIsFailure ==
    [][\A w \in ClientWorkers :
          JobRecord(w) =>
             /\ ~cpWorkers[w].served =>
                   /\ failedRequests' = failedRequests + 1
                   /\ successRequests' = successRequests
             /\ successRequests' # successRequests => cpWorkers[w].served]_vars

\* C23: RunRequests returns, with a snapshot whose TotalRequests is at least
\* count when the cluster had a node; on a cluster without nodes no request is
\* recorded and Stop returns.
C23_RunRequestsReturns ==
    /\ (clOp = "RunRequests") ~> (clOp = "none")
    /\ (clOp = "Stop") ~> (clOp = "none")
    /\ [](clRet.op = "RunRequests" /\ clRet.nodes > 0
            => clRet.TotalRequests >= clRet.count)
    /\ [](cmade = {} => totalRequests = 0)

(***************************************************************************)
(* Properties of the scenario engine                                       *)
(***************************************************************************)
\* C24: at most one Run is in progress per Engine; a Run is admitted only when
\* no other is in progress, a Run called meanwhile returns an error and changes
\* nothing else, and once no Run is in progress IsRunning() is false.
C24_OneRunAtATime ==
    /\ [](Cardinality(InProgress) <= 1)
    /\ [](InProgress = {} => ~enRunning)
    /\ [][\A r \in Callers :
             /\ (\E done \in BOOLEAN : RunBegin(r, done)) => InProgress = {}
             /\ (enPc[r] = "idle" /\ InProgress # {} /\ enRet'[r] # enRet[r]) =>
                   /\ enRet'[r] = [result |-> FALSE, err |-> TRUE]
                   /\ \A q \in Callers \ {r} : enRet'[q] = enRet[q]
                   /\ UNCHANGED <<enMade, enConfig, enRunning, enPc, enCtxDone,
                                  enScenarioDone, enComp, enTracked, enTodo, enActed,
                                  enRuns, enTimedOut, cobj, registry, cmade>>]_vars

\* A Run was rejected while another was in progress; that one returned its
\* Result, and a Run admitted afterwards has returned its Result too.
C24_Witness ==
    \E r, q \in Callers :
        /\ r # q
        /\ enRet[r] = [result |-> FALSE, err |-> TRUE]
        /\ enRet[q] = [result |-> TRUE, err |-> FALSE]
        /\ enRuns = 2
        /\ InProgress = {}

\* C25: once the context given to a Run that is in progress is cancelled, the
\* Run returns, whether or not the duration passes, with a Result and no error.
C25_CancelEndsRun ==
    /\ (\E r \in Callers : enPc[r] # "idle" /\ enCtxDone[r]) ~> (InProgress = {})
    /\ [][\A r \in Callers :
             enPc[r] # "idle" /\ enPc'[r] = "idle" =>
                enRet'[r] = [result |-> TRUE, err |-> FALSE]]_vars

\* A Run has returned its Result after its context was cancelled, before the
\* duration had passed.
C25_Witness ==
    \E r \in Callers :
        /\ enPc[r] = "idle"
        /\ enRet[r] = [result |-> TRUE, err |-> FALSE]
        /\ enCtxDone[r]
        /\ ~enTimedOut

\* C26: when no Run is in progress after a Run has returned, the load
\* generator, the injector and the supervisor are stopped, none of their loops
\* is left, and no node is Running.
C26_AllStoppedAfterRun ==
    (enRuns > 0 /\ InProgress = {}) =>
        /\ \A k \in Components : ~enComp[k].running /\ enComp[k].loops = {}
        /\ \A o \in cmade : cobj[o].status # StatusRunning

\* A Run has returned in which an attack or a recovery had acted on a node.
C26_Witness ==
    /\ enRuns > 0
    /\ InProgress = {}
    /\ enActed
    /\ enComp["monkey"].made
    /\ enComp["recovery"].made
    /\ Cardinality(ClusterNodes) = 2

\* C39: when the goroutines calling Stop are all inside Stop at once on a pool
\* started for the first time, none of them panics in close(p.jobs): the queue
\* is closed once.
C39_ConcurrentStopsCloseOnce ==
    (ctx = 1 /\ \A t \in Threads : InStop(t)) => panicked.op # "Stop"

\* C40: every subscribed channel is open, so the channels a Publish in progress
\* still has to visit are open and no call on the bus panics on a closed
\* channel; a channel is closed only by the step that removes it from the
\* subscribers; Unsubscribe of a channel that is not subscribed changes nothing.
C40_NoSendOnClosedChannel ==
    /\ [](\A ch \in subscribers : ~chans[ch].closed)
    /\ [](pubEvent # 0 => \A ch \in pubTodo : ch \in subscribers /\ ~chans[ch].closed)
    /\ [](~busPanicked)
    /\ [][\A ch \in Channels :
            /\ (~chans[ch].closed /\ chans'[ch].closed) =>
                   (ch \in subscribers /\ ch \notin subscribers')
            /\ (Unsubscribe(ch) /\ ch \notin subscribers) =>
                   UNCHANGED <<subscribers, chans, busPanicked>>]_vars

\* C40: the first channel was unsubscribed before the first Publish, a second
\* Unsubscribe of it has returned after the second Subscribe, and a Publish is
\* in progress with the second channel still to visit.
C40_Witness ==
    /\ busRet = [op |-> "Unsubscribe", ch |-> 1, count |-> 1]
    /\ subscribers = {2}
    /\ subAt[1] = 0 /\ subAt[2] = 1
    /\ chans[1].closed /\ chans[1].buf = <<>> /\ got[1] = <<>>
    /\ pubEvent = 2
    /\ pubTodo = {2}

C36_CurrentlyFailedNotNegative == rmStats.CurrentlyFailed >= 0

\* C32: when the supervisor counts an attempt of Start or Resume on a node whose
\* failure episode is the one its status read of this tick sighted, it has
\* first sighted the episode on an earlier tick and RecoveryDelay or more has
\* elapsed since that first sighting; and it makes at most one attempt per node
\* in a tick.
C32_NoActionOnFirstSighting ==
    [][\A i \in NodeIds :
         (/\ rcCur # NoObj
          /\ ObjId(rcCur) = i
          /\ rcPc = "handle"
          /\ rcPc' \in {"start", "resume"}
          /\ rmSighted[i].seen) =>
             /\ ~rmSighted[i].fresh
             /\ rcNow - rmSighted[i].at >= rmConfig.RecoveryDelay
             /\ rcCur \notin rcTodo]_vars

\* C33: when the supervisor's Resume call on a node it read as Suspended comes
\* after another Resume has brought the node back to Running, the node stays
\* Running and the supervisor neither counts a FailedRecovery nor publishes an
\* event for a failure; when it comes first, it succeeds and the node is Running.
C33_ResumeRaceCountsNoFailure ==
    [][(rcPc = "resume" /\ rcPc' = "idle") =>
          /\ cobj[rcCur].status = StatusRunning =>
                /\ cobj'[rcCur].status = StatusRunning
                /\ rmStats'.FailedRecoveries = rmStats.FailedRecoveries
                /\ rmPublished' = rmPublished
          /\ cobj[rcCur].status = StatusSuspended =>
                /\ cobj'[rcCur].status = StatusRunning
                /\ rmStats'.FailedRecoveries = rmStats.FailedRecoveries]_vars

\* Every node of the cluster is Running with no injected delay.
Healed == \A o \in ClusterNodes : cobj[o].status = StatusRunning /\ cobj[o].delay = 0

\* C37: once the attacks have ended, a supervisor with AutoRestart, AutoResume
\* and ClearDelay (here with no grace period) eventually has every node of the
\* cluster Running with no injected delay, for every MaxRetries, unless it has
\* made all the recovery attempts the model allows.
C37_SupervisorHealsCluster ==
    (mkCancelled /\ rmConfig.RecoveryDelay = 0)
        ~> (Healed \/ rmStats.TotalRecoveries >= MaxRecoveries)

\* runScenario starts the load generator, then the injector, then the supervisor.
StartedBefore(a, b) ==
    \/ a = "client" /\ b \in {"monkey", "recovery"}
    \/ a = "monkey" /\ b = "recovery"

\* C34: the components are stopped in the reverse of the order of their start,
\* so a component is running as long as one started after it is running, and
\* the nodes are stopped when no component is running any more.
C34_StopsInReverseOrder ==
    /\ \A a, b \in Components :
          (StartedBefore(a, b) /\ enComp[a].made /\ enComp[b].running) =>
              enComp[a].running
    /\ \A r \in Callers :
          enPc[r] = "stop_nodes" => \A k \in Components : ~enComp[k].running

\* The instruction takes a lock.
Takes(ins) == ins[1] \in {"Lock", "Locked", "RLock", "RLocked"}

\* C35: a goroutine that takes a lock holds no other lock, so no goroutine ever
\* holds two of the locks; in particular the injector and the supervisor take
\* the bus, node and cluster locks with their own mutex released.
C35_NoTwoLocksHeld ==
    /\ [][\A t \in LockThreads :
            (LockStep(t) /\ lkPc'[t] # lkPc[t] /\ Takes(NextInstr(t))) =>
                LocksHeld(t) = {}]_vars
    /\ [](\A t \in LockThreads : Cardinality(LocksHeld(t)) <= 1)

\* The order in which the locks nest: a component's own mutex outside the
\* registry's, the registry's outside a node's; the bus and the metrics inside.
LockRank(l) ==
    CASE l \in {"monkey", "supervisor"} -> 1
      [] l = "cluster" -> 2
      [] OTHER -> 3

\* C38: the goroutines in an operation are never all waiting; a goroutine asks
\* for a lock only while holding locks that come before it in one fixed order,
\* so the nesting is acyclic and no lock is asked for twice; and the
\* operations begun all complete, so every lock asked for is granted.
C38_NoDeadlock ==
    /\ []((\E t \in LockThreads : LockBusy(t)) =>
             \E t \in LockThreads : LockBusy(t) /\ CanTake(t, NextInstr(t)))
    /\ [](\A t \in LockThreads :
             (LockBusy(t) /\ Takes(NextInstr(t))) =>
                 \A l \in LocksHeld(t) : LockRank(l) < LockRank(NextInstr(t)[2]))
    /\ (\E t \in LockThreads : LockBusy(t)) ~> (\A t \in LockThreads : ~LockBusy(t))

\* C38: all five goroutines are in an operation: the resume loop holds the
\* injector's mutex and is about to resume the node, the supervisor holds its
\* mutex and RemoveNode the registry's, both about to call the node, the attack
\* loop waits for the injector's mutex and the worker for the node.
C38_Witness ==
    /\ lkPc["resume"] = [op |-> "checkAndResume", i |-> 3]
    /\ lkPc["health"] = [op |-> "checkRunning", i |-> 5]
    /\ lkPc["ops"] = [op |-> "RemoveNode", i |-> 2]
    /\ lkPc["attack"] = [op |-> "attackSuspend", i |-> 4]
    /\ lkPc["worker"] = [op |-> "Job", i |-> 1]
    /\ ~CanTake("attack", NextInstr("attack"))

====
